---- MODULE Spec2Model ----
(***************************************************************************)
(* ai-wright: the act()/verify() orchestration loops of src/src/index.ts,  *)
(* the oracle client of src/src/ai-client.ts and the annotator             *)
(* (PageSoMHandler.updateSom) of the SoM handler, as state machines.       *)
(*                                                                         *)
(* Three specifications share the module, each moving its own variables    *)
(* and leaving the others at their initial values:                         *)
(*   Spec / FairSpec  one act() call                                        *)
(*   SpecVerify       one verify() call                                     *)
(*   SpecSom          a page and the annotation passes run on it            *)
(***************************************************************************)
EXTENDS Integers, Sequences, FiniteSets, TLC

(***************************************************************************)
(* Bounds of the exploration.                                              *)
(***************************************************************************)
\* largest value of AI_PLAYWRIGHT_MAX_WAIT_RETRIES the environment sets
MaxEnvLimit == 2
\* longest preCommands / commandsToRun list of an oracle reply
MaxCmds == 2
\* most results act() accumulates before the oracle stops sending commands
MaxResults == 2
\* most runCommand calls left running behind a timed-out command
MaxOrphans == 1
NumNodes == 2
MaxFields == 2
MaxListLen == 2
\* most live nodes that carry one marker id
MaxDuplicates == 2

(***************************************************************************)
(* Program constants.                                                      *)
(***************************************************************************)
DEFAULT_WAIT_RETRY_LIMIT == 2
DEFAULT_CONFIDENCE_THRESHOLD == 70
DEFAULT_RETRIES == 3
DEFAULT_DELAY_MS == 250

VARIABLES
    \* ---- act() ----
    pc,                 \* position of act() in its loop
    waitRetryLimit,     \* const waitRetryLimit = getMaxWaitRetries()
    waitCount,          \* let waitCount
    preActionRetryCount,\* let preActionRetryCount
    aggregateResults,   \* const aggregateResults: SemanticCommandResult[]
    rawReply,           \* the oracle's JSON reply as the provider returned it
    aiResult,           \* the reply as callAiAction hands it to act()
    preLeft,            \* pre-commands of this round not yet run
    waitLeft,           \* WAIT_FOR main commands of this round not yet run
    actLeft,            \* action-type main commands of this round not yet run
    lastResult,         \* result of the command just executed (pc = "post")
    thrown,             \* the error act() threw ("none" while it runs)
    orphans,            \* runCommand calls still running after their timer won
    roundExecuted,      \* commands of the current reply executed so far
    waitRun,            \* shouldWait replies so far while every reply was one, else -1
    navSeen,            \* a navigation interruption hit some stabilizeForLlm call
    waitsHonoured,      \* shouldWait replies this call answered by looping to a new query
    retriesHonoured,    \* needsRetryAfterPreActions replies this call answered the same way
    roundTrace,         \* what this iteration of the loop has run so far, in order
    \* ---- verify() ----
    vpc,                \* position of verify() in its loop
    vLimit,             \* const waitRetryLimit = getMaxWaitRetries()
    vWaitCount,         \* let waitCount
    vOptions,           \* options.confidence_threshold
    vExpect,            \* the host assertion function: hard, soft or missing
    vRaw,               \* the oracle's JSON reply as the provider returned it
    vResult,            \* the reply as callAiAction hands it to verify()
    vAsserts,           \* the assertions evaluated through the host function
    vThrown,            \* the error verify() threw
    vQueryRetries,      \* oracle calls that navigation interrupted and verify() retried
    \* ---- the page and the annotator ----
    dom,                \* per candidate node: what the page shows of it
    attr,               \* per node: its tc-som-id attribute, if set
    somMap,             \* PageSoMHandler.somMap: marker id -> node
    elements,           \* the list the last annotation pass produced
    lastArgs,           \* includeOffscreen / includeDisabled of the last pass
    lastCount,          \* what the last updateSom call returned
    passFresh,          \* the last pass has just completed on this page state
    pageClosed,         \* this.page.isClosed()
    lastPass,           \* how the last updateSom call ended: "returned" or "threw"
    \* ---- the oracle client: callAiAction ----
    cpc,                \* position of callAiAction
    retries,            \* withRetry: retries left
    delayMs,            \* withRetry: delay before the next re-attempt
    attempts,           \* provider.callLLM invocations of this call
    delays,             \* the delays withRetry has waited, in order
    payload,            \* JSON.parse(raw): field name -> JSON value
    cResult,            \* what callAiAction resolved with
    cError,             \* what callAiAction rejected with
    \* ---- extract() ----
    epc,                \* position of extract()
    eOptions,           \* options?.return_type
    eReply,             \* the reply callAiAction resolved with
    eOut,               \* what extract() returned or threw
    \* ---- the Action Executor: runCommand under executeSomCommand ----
    xpc,                \* position of runCommand, or how the command settled
    somCommand,         \* the SomCommand being executed
    element,            \* this.somMap.get(command.elementRef)
    useSomIdBasedCommands, \* second argument of runCommand
    failedAttempts,     \* const failedAttempts = []
    selectorIndex,      \* position in the list of semantic selectors, from 1
    tried,              \* every selector the action was run on and threw, in order
    dispatched,         \* every target the action was first dispatched to, with the outcome
    heuristicsRun,      \* for every selector tried, the heuristics that dispatched it again
    resultMutations,    \* the mutations member of the result runCommand returns
    runResult,          \* the result executeSomCommand resolves with
    \* ---- the Target Reconciler: resolveSomTarget ----
    rpc,                \* position of resolveSomTarget
    rExpected,          \* the descriptor stored in the somMap for the marker id
    rDuplicates,        \* the live nodes carrying the marker id, in document order
    rResolution,        \* what resolveSomTarget returned or threw
    \* ---- executePercentageCoordinateAction ----
    ppc,                \* position of executePercentageCoordinateAction
    coord,              \* command.coord: percentages of the viewport
    viewport,           \* this.page.viewportSize()
    pixels,             \* pixelX, pixelY
    \* ---- waitFor commands ----
    wpc,                \* position of the waitFor command
    waitForCommand,     \* its durationSeconds and value
    durationMs          \* what page.waitForTimeout was called with

actVars == <<pc, waitRetryLimit, waitCount, preActionRetryCount, aggregateResults,
             rawReply, aiResult, preLeft, waitLeft, actLeft, lastResult, thrown,
             orphans, roundExecuted, waitRun, navSeen, waitsHonoured, retriesHonoured,
             roundTrace>>

verifyVars == <<vpc, vLimit, vWaitCount, vOptions, vExpect, vRaw, vResult, vAsserts,
                vThrown, vQueryRetries>>

somVars == <<dom, attr, somMap, elements, lastArgs, lastCount, passFresh, pageClosed,
             lastPass>>

clientVars == <<cpc, retries, delayMs, attempts, delays, payload, cResult, cError>>

extractVars == <<epc, eOptions, eReply, eOut>>

execVars == <<xpc, somCommand, element, useSomIdBasedCommands, failedAttempts, selectorIndex,
              tried, dispatched, heuristicsRun, resultMutations, runResult>>

resolveVars == <<rpc, rExpected, rDuplicates, rResolution>>

coordVars == <<ppc, coord, viewport, pixels>>

waitVars == <<wpc, waitForCommand, durationMs>>

vars == <<actVars, verifyVars, somVars, clientVars, extractVars, execVars, resolveVars,
         coordVars, waitVars>>

\* what the steps of one component leave alone
outsideAct ==
    <<verifyVars, somVars, clientVars, extractVars, execVars, resolveVars, coordVars,
      waitVars>>
outsideVerify ==
    <<actVars, somVars, clientVars, extractVars, execVars, resolveVars, coordVars,
      waitVars>>
outsideSom ==
    <<actVars, verifyVars, clientVars, extractVars, execVars, resolveVars, coordVars,
      waitVars>>
outsideClient ==
    <<actVars, verifyVars, somVars, extractVars, execVars, resolveVars, coordVars,
      waitVars>>
outsideExtract ==
    <<actVars, verifyVars, somVars, clientVars, execVars, resolveVars, coordVars,
      waitVars>>
outsideExec ==
    <<actVars, verifyVars, somVars, clientVars, extractVars, resolveVars, coordVars,
      waitVars>>
outsideResolve ==
    <<actVars, verifyVars, somVars, clientVars, extractVars, execVars, coordVars,
      waitVars>>
outsideCoord ==
    <<actVars, verifyVars, somVars, clientVars, extractVars, execVars, resolveVars,
      waitVars>>
outsideWait ==
    <<actVars, verifyVars, somVars, clientVars, extractVars, execVars, resolveVars,
      coordVars>>

Min(a, b) == IF a < b THEN a ELSE b
Max(a, b) == IF a < b THEN b ELSE a

(***************************************************************************)
(* getMaxWaitRetries: AI_PLAYWRIGHT_MAX_WAIT_RETRIES is unset or empty,    *)
(* text that is no number, or a number, given here in tenths (15 is "1.5").*)
(***************************************************************************)
EnvValues ==
    {[kind |-> "unset", tenths |-> 0], [kind |-> "text", tenths |-> 0]}
    \cup {[kind |-> "number", tenths |-> t] :
            t \in {u \in -10..(10 * MaxEnvLimit + 5) : u % 5 = 0}}

getMaxWaitRetries(raw) ==
    IF raw.kind = "unset" THEN DEFAULT_WAIT_RETRY_LIMIT
    ELSE IF raw.kind = "number" /\ raw.tenths >= 0
         THEN raw.tenths \div 10
         ELSE DEFAULT_WAIT_RETRY_LIMIT

(***************************************************************************)
(* Commands and oracle replies.                                            *)
(***************************************************************************)
WAIT_FOR == "waitFor"
Actions == {"click", WAIT_FOR}

SeqsUpTo(S, n) == UNION {[1..k -> S] : k \in 0..n}

\* every field the act() prompt defines; a flag an oracle leaves out reads
\* as undefined, which act() treats as false, and a list as empty
RawReplies ==
    [shouldWait : BOOLEAN, stepCompleted : BOOLEAN, requestSomRefresh : BOOLEAN,
     needsRetryAfterPreActions : BOOLEAN,
     preCommands : SeqsUpTo(Actions, MaxCmds),
     commandsToRun : SeqsUpTo(Actions, MaxCmds)]

\* the fields validateAiActionResult copies into its result
CopiedFields == {"preCommands", "commandsToRun", "verificationSuccess",
                 "extractedContent", "extractedContentList", "shouldWait",
                 "waitReason", "needsRetryAfterPreActions", "stepCompleted",
                 "confidence", "verificationReason"}

validateAiActionResult(data) ==
    [f \in (DOMAIN data) \cap CopiedFields |-> data[f]]

\* aiResult.flag in a condition: undefined is falsy
Flag(result, f) == f \in DOMAIN result /\ result[f]
\* aiResult.list ?? []
List(result, f) == IF f \in DOMAIN result THEN result[f] ELSE <<>>

NoReply == [shouldWait |-> FALSE]

NoError == [kind |-> "none", limit |-> 0]
\* an Error whose message quotes the configured limit: `... (${waitRetryLimit}).`
LimitError(kind, limit) == [kind |-> kind, limit |-> limit]
\* an error whose message does not quote the limit
PlainError(kind) == [kind |-> kind, limit |-> -1]

NoResult == [kind |-> "none", status |-> "none"]
Result(kind, status) == [kind |-> kind, status |-> status]

\* one thing an iteration ran: a pre-command, the marker refresh after the pre-commands,
\* a wait command or an action command; settled = FALSE: the per-command timer won and
\* the call is still running
Event(phase, cmd, status, settled) ==
    [phase |-> phase, command |-> cmd, status |-> status, settled |-> settled]

Traced(events) == roundTrace' = IF pc' = "stabilize" THEN <<>> ELSE roundTrace \o events

Terminated == pc \in {"done", "thrown"}

(***************************************************************************)
(* stabilizeForLlm: the loop around waitForPageStability and prepare()     *)
(* (updateSom, getSomElementMap, captureSomScreenshot), run with `navs`    *)
(* consecutive navigation interruptions of prepare().                      *)
(***************************************************************************)
RECURSIVE stabilizeForLlm(_, _, _)
stabilizeForLlm(attemptsUsed, limit, navs) ==
    IF navs = 0
    THEN [throws |-> FALSE, waitCount |-> attemptsUsed]
    ELSE IF attemptsUsed + 1 > limit
         THEN [throws |-> TRUE, waitCount |-> attemptsUsed + 1]
         ELSE stabilizeForLlm(attemptsUsed + 1, limit, navs - 1)

Stabilize ==
    /\ pc = "stabilize"
    /\ \E navs \in 0..(waitRetryLimit + 1) :
         LET s == stabilizeForLlm(waitCount, waitRetryLimit, navs) IN
         /\ navSeen' = (navSeen \/ navs > 0)
         /\ IF s.throws
            THEN /\ pc' = "thrown"
                 /\ thrown' = LimitError("navigationLimit", waitRetryLimit)
                 /\ UNCHANGED waitCount
            ELSE /\ pc' = "query"
                 /\ waitCount' = s.waitCount
                 /\ UNCHANGED thrown
    /\ UNCHANGED <<waitRetryLimit, preActionRetryCount, aggregateResults, rawReply,
                   aiResult, preLeft, waitLeft, actLeft, lastResult, orphans,
                   roundExecuted, waitRun>>
    /\ Traced(<<>>)
    /\ UNCHANGED <<waitsHonoured, retriesHonoured, outsideAct>>

(***************************************************************************)
(* callAiAction: the provider's JSON text is parsed and validated; the     *)
(* call may also fail (provider error, malformed JSON, a field of the      *)
(* wrong type).                                                            *)
(***************************************************************************)
WaitRunCap == Max(DEFAULT_WAIT_RETRY_LIMIT, MaxEnvLimit) + 2

QueryOracle ==
    /\ pc = "query"
    /\ \/ \E raw \in RawReplies :
            /\ Len(raw.preCommands) + Len(raw.commandsToRun)
                  <= MaxResults - Len(aggregateResults)
            /\ rawReply' = raw
            /\ aiResult' = validateAiActionResult(raw)
            /\ waitRun' = IF waitRun >= 0 /\ raw.shouldWait
                          THEN Min(waitRun + 1, WaitRunCap) ELSE -1
            /\ pc' = "reply"
            /\ UNCHANGED thrown
       \/ /\ pc' = "thrown"
          /\ thrown' = PlainError("oracleError")
          /\ UNCHANGED <<rawReply, aiResult, waitRun>>
    /\ roundExecuted' = 0
    /\ UNCHANGED <<waitRetryLimit, waitCount, preActionRetryCount, aggregateResults,
                   preLeft, waitLeft, actLeft, lastResult, orphans, navSeen>>
    /\ Traced(<<>>)
    /\ UNCHANGED <<waitsHonoured, retriesHonoured, outsideAct>>

(***************************************************************************)
(* The branches of act() on a reply, in the order of the code.  A branch   *)
(* sets pc, the two counters, aggregateResults and thrown.                 *)
(***************************************************************************)
\* variant: the limit test is off by one
LimitReached_OffByOne(count, limit) == count > limit

\* waitCount >= waitRetryLimit
LimitReached(count, limit) == count >= limit

\* waitCount = Math.min(waitCount + 1, waitRetryLimit)
ClampedIncrement(count, limit) == Min(count + 1, limit)

\* aggregateResults.length = 0; waitCount = Math.min(...); preActionRetryCount = 0; continue
RetryRound ==
    /\ aggregateResults' = <<>>
    /\ waitCount' = ClampedIncrement(waitCount, waitRetryLimit)
    /\ preActionRetryCount' = 0
    /\ pc' = "stabilize"
    /\ UNCHANGED thrown

\* `continue` ends the iteration: its block-scoped aiResult and command lists are gone
ReplyScope ==
    IF pc' = "stabilize"
    THEN rawReply' = NoReply /\ aiResult' = NoReply
    ELSE UNCHANGED <<rawReply, aiResult>>

ListScope(pre, waits, acts) ==
    IF pc' = "stabilize"
    THEN preLeft' = <<>> /\ waitLeft' = <<>> /\ actLeft' = <<>>
    ELSE preLeft' = pre /\ waitLeft' = waits /\ actLeft' = acts

Executed(n) == roundExecuted' = IF pc' = "stabilize" THEN 0 ELSE n

\* if (aiResult.shouldWait) { ... }
OnShouldWait ==
    /\ IF LimitReached(waitCount, waitRetryLimit)
       THEN /\ pc' = "thrown"
            /\ thrown' = LimitError("waitLimit", waitRetryLimit)
            /\ UNCHANGED waitCount
       ELSE /\ waitCount' = waitCount + 1
            /\ pc' = "stabilize"
            /\ UNCHANGED thrown
    /\ UNCHANGED <<preActionRetryCount, aggregateResults>>

\* variant: the return drops the results accumulated so far
OnStepCompleted_DropsResults ==
    /\ pc' = "done"
    /\ aggregateResults' = <<>>
    /\ UNCHANGED <<waitCount, preActionRetryCount, thrown>>

\* variant: a completed step that comes with commands has them run
OnStepCompleted_RunsCommands ==
    /\ pc' = IF List(aiResult, "preCommands") # <<>> THEN "pre"
             ELSE IF List(aiResult, "commandsToRun") # <<>> THEN "main"
             ELSE "done"
    /\ UNCHANGED <<waitCount, preActionRetryCount, aggregateResults, thrown>>

\* if (aiResult.stepCompleted) { return { command_results: aggregateResults, status: SUCCESS } }
OnStepCompleted ==
    /\ pc' = "done"
    /\ UNCHANGED <<waitCount, preActionRetryCount, aggregateResults, thrown>>

\* if (aiResult.requestSomRefresh) { waitForPageStability; updateSom; ... continue }
OnSomRefresh ==
    /\ waitCount' = ClampedIncrement(waitCount, waitRetryLimit)
    /\ preActionRetryCount' = 0
    /\ pc' = "stabilize"
    /\ UNCHANGED <<aggregateResults, thrown>>

\* const preCommands = aiResult.preCommands ?? []; if (preCommands.length > 0) { ... }
OnProceed ==
    /\ pc' = IF List(aiResult, "preCommands") # <<>> THEN "pre" ELSE "main"
    /\ UNCHANGED <<waitCount, preActionRetryCount, aggregateResults, thrown>>

\* the count of honoured waits is kept up to one past the largest limit
HonouredCap == Max(DEFAULT_WAIT_RETRY_LIMIT, MaxEnvLimit) + 1

HandleReply ==
    /\ pc = "reply"
    /\ IF Flag(aiResult, "shouldWait") THEN OnShouldWait
       ELSE IF Flag(aiResult, "stepCompleted") THEN OnStepCompleted
       ELSE IF Flag(aiResult, "requestSomRefresh") THEN OnSomRefresh
       ELSE OnProceed
    /\ ReplyScope
    /\ ListScope(IF pc' = "pre" THEN List(aiResult, "preCommands") ELSE <<>>, <<>>, <<>>)
    /\ Executed(roundExecuted)
    /\ waitsHonoured' = IF Flag(aiResult, "shouldWait") /\ pc' = "stabilize"
                        THEN Min(waitsHonoured + 1, HonouredCap)
                        ELSE waitsHonoured
    /\ UNCHANGED <<waitRetryLimit, lastResult, orphans, waitRun, navSeen>>
    /\ Traced(<<>>)
    /\ UNCHANGED <<retriesHonoured, outsideAct>>

(***************************************************************************)
(* executeSomCommand: handler.runCommand raced against the per-action      *)
(* timer.  `behaviour` is what the driver does with the command:           *)
(*   success, failure   runCommand resolves with that status               *)
(*   rejected           runCommand rejects with another error (page closed)*)
(*   reannotation       resolveSomTarget throws SomReannotationRequiredError*)
(*   navigation         runCommand rejects with a navigation error         *)
(*   slow               the timer fires first; runCommand is not cancelled *)
(***************************************************************************)
DriverBehaviours == {"success", "failure", "rejected", "reannotation", "navigation", "slow"}

executeSomCommand(behaviour) ==
    CASE behaviour = "success"      -> [throws |-> "none", status |-> "success", stillRunning |-> FALSE]
      [] behaviour = "failure"      -> [throws |-> "none", status |-> "failure", stillRunning |-> FALSE]
      [] behaviour = "rejected"     -> [throws |-> "none", status |-> "failure", stillRunning |-> FALSE]
      [] behaviour = "reannotation" -> [throws |-> "SomReannotationRequiredError", status |-> "none", stillRunning |-> FALSE]
      [] behaviour = "navigation"   -> [throws |-> "NavigationInProgressError", status |-> "none", stillRunning |-> FALSE]
      [] behaviour = "slow"         -> [throws |-> "none", status |-> "failure", stillRunning |-> TRUE]

\* a timer win is explored while fewer than MaxOrphans earlier calls still run
MayRun(behaviour) == behaviour = "slow" => orphans < MaxOrphans

(***************************************************************************)
(* for (const command of preCommands) { ... }                              *)
(***************************************************************************)
RunPreCommand ==
    /\ pc = "pre"
    /\ preLeft # <<>>
    /\ roundExecuted' = roundExecuted + 1
    /\ IF Head(preLeft) = WAIT_FOR
       THEN \* page.waitForTimeout(durationMs); aggregateResults.push(success); continue
            /\ aggregateResults' = Append(aggregateResults, Result("preWait", "success"))
            /\ preLeft' = Tail(preLeft)
            /\ roundTrace' = Append(roundTrace, Event("pre", WAIT_FOR, "success", TRUE))
            /\ UNCHANGED <<pc, thrown, orphans>>
       ELSE \E b \in DriverBehaviours :
              LET r == executeSomCommand(b) IN
              /\ MayRun(b)
              /\ orphans' = IF r.stillRunning THEN orphans + 1 ELSE orphans
              /\ roundTrace' = Append(roundTrace, Event("pre", Head(preLeft),
                                                        IF r.throws # "none" THEN "threw"
                                                        ELSE r.status,
                                                        ~r.stillRunning))
              /\ IF r.throws # "none"
                 THEN \* no try/catch around executeSomCommand here: act() rejects
                      /\ pc' = "thrown"
                      /\ thrown' = PlainError(r.throws)
                      /\ UNCHANGED <<aggregateResults, preLeft>>
                 ELSE /\ aggregateResults' = Append(aggregateResults, Result("pre", r.status))
                      /\ IF r.status = "failure"
                         THEN /\ pc' = "thrown"
                              /\ thrown' = PlainError("preCommandFailed")
                              /\ UNCHANGED preLeft
                         ELSE /\ preLeft' = Tail(preLeft)
                              /\ UNCHANGED <<pc, thrown>>
    /\ UNCHANGED <<waitRetryLimit, waitCount, preActionRetryCount, rawReply, aiResult,
                   waitLeft, actLeft, lastResult, waitRun, navSeen>>
    /\ UNCHANGED <<waitsHonoured, retriesHonoured, outsideAct>>

\* after the loop: waitForPageStability; try { updateSom } catch (navigation) { continue }
AfterPreCommands ==
    /\ pc = "pre"
    /\ preLeft = <<>>
    /\ \E navigation \in BOOLEAN :
         IF navigation
         THEN /\ waitCount' = ClampedIncrement(waitCount, waitRetryLimit)
              /\ preActionRetryCount' = 0
              /\ pc' = "stabilize"
         ELSE /\ pc' = "main"
              /\ UNCHANGED <<waitCount, preActionRetryCount>>
    /\ ReplyScope
    /\ ListScope(<<>>, <<>>, <<>>)
    /\ Executed(roundExecuted)
    /\ UNCHANGED <<waitRetryLimit, aggregateResults, lastResult, thrown, orphans,
                   waitRun, navSeen>>
    /\ Traced(<<Event("annotate", "updateSom", "success", TRUE)>>)
    /\ UNCHANGED <<waitsHonoured, retriesHonoured, outsideAct>>

(***************************************************************************)
(* ensureCommands and the partition of the main commands.                  *)
(***************************************************************************)
ensureCommands(result) ==
    IF Flag(result, "requestSomRefresh") \/ Flag(result, "stepCompleted")
    THEN [commands |-> <<>>, implicitWait |-> FALSE]
    ELSE IF List(result, "commandsToRun") = <<>>
         THEN [commands |-> <<>>, implicitWait |-> TRUE]
         ELSE [commands |-> List(result, "commandsToRun"), implicitWait |-> FALSE]

\* commands.filter((command) => (command.action === WAIT_FOR) === wantWait)
RECURSIVE Filter(_, _)
Filter(s, wantWait) ==
    IF s = <<>> THEN <<>>
    ELSE IF (Head(s) = WAIT_FOR) = wantWait
         THEN <<Head(s)>> \o Filter(Tail(s), wantWait)
         ELSE Filter(Tail(s), wantWait)

\* OnNeedsRetry counting the reply as a wait too: `waitCount += 1` for `waitCount = 0`
OnNeedsRetry_CountsAsWait ==
    /\ IF LimitReached(preActionRetryCount, waitRetryLimit)
       THEN /\ pc' = "thrown"
            /\ thrown' = LimitError("preActionRetryLimit", waitRetryLimit)
            /\ UNCHANGED <<waitCount, preActionRetryCount>>
       ELSE /\ preActionRetryCount' = preActionRetryCount + 1
            /\ waitCount' = waitCount + 1
            /\ pc' = "stabilize"
            /\ UNCHANGED thrown
    /\ UNCHANGED aggregateResults

\* if (aiResult.needsRetryAfterPreActions) { ... }
OnNeedsRetry ==
    /\ IF LimitReached(preActionRetryCount, waitRetryLimit)
       THEN /\ pc' = "thrown"
            /\ thrown' = LimitError("preActionRetryLimit", waitRetryLimit)
            /\ UNCHANGED <<waitCount, preActionRetryCount>>
       ELSE /\ preActionRetryCount' = preActionRetryCount + 1
            /\ waitCount' = 0
            /\ pc' = "stabilize"
            /\ UNCHANGED thrown
    /\ UNCHANGED aggregateResults

\* if (implicitWaitTriggered) { ... }
OnImplicitWait ==
    /\ IF LimitReached(waitCount, waitRetryLimit)
       THEN /\ pc' = "thrown"
            /\ thrown' = LimitError("implicitWaitLimit", waitRetryLimit)
            /\ UNCHANGED waitCount
       ELSE /\ waitCount' = waitCount + 1
            /\ pc' = "stabilize"
            /\ UNCHANGED thrown
    /\ UNCHANGED <<preActionRetryCount, aggregateResults>>

\* OnCommands with the action loop entered at once, whatever wait commands there are
OnCommands_ActionsFirst(commands) ==
    /\ pc' = "cmds"
    /\ UNCHANGED <<waitCount, preActionRetryCount, aggregateResults, thrown>>

\* waitCommands / actionCommands; the wait loop runs first
OnCommands(commands) ==
    /\ pc' = IF Filter(commands, TRUE) # <<>> THEN "waits" ELSE "cmds"
    /\ UNCHANGED <<waitCount, preActionRetryCount, aggregateResults, thrown>>

HandleMain ==
    /\ pc = "main"
    /\ LET ensured == ensureCommands(aiResult) IN
       /\ IF Flag(aiResult, "needsRetryAfterPreActions") THEN OnNeedsRetry
          ELSE IF ensured.implicitWait THEN OnImplicitWait
          ELSE OnCommands(ensured.commands)
       /\ IF pc' \in {"waits", "cmds"}
          THEN ListScope(<<>>, Filter(ensured.commands, TRUE), Filter(ensured.commands, FALSE))
          ELSE ListScope(<<>>, <<>>, <<>>)
    /\ ReplyScope
    /\ Executed(roundExecuted)
    /\ retriesHonoured' = IF Flag(aiResult, "needsRetryAfterPreActions") /\ pc' = "stabilize"
                          THEN Min(retriesHonoured + 1, HonouredCap)
                          ELSE retriesHonoured
    /\ UNCHANGED <<waitRetryLimit, lastResult, orphans, waitRun, navSeen>>
    /\ Traced(<<>>)
    /\ UNCHANGED <<waitsHonoured, outsideAct>>

\* for (const waitCommand of waitCommands) { waitForTimeout; waitForPageStability; updateSom }
RunWaitCommand ==
    /\ pc = "waits"
    /\ waitLeft # <<>>
    /\ \E navigation \in BOOLEAN :
         IF navigation
         THEN \* navigationRetryRequested = true; break
              RetryRound
         ELSE /\ pc' = IF Tail(waitLeft) # <<>> THEN "waits" ELSE "cmds"
              /\ UNCHANGED <<aggregateResults, waitCount, preActionRetryCount, thrown>>
    /\ ReplyScope
    /\ ListScope(<<>>, Tail(waitLeft), actLeft)
    /\ Executed(roundExecuted + 1)
    /\ UNCHANGED <<waitRetryLimit, lastResult, orphans, waitRun, navSeen>>
    /\ Traced(<<Event("wait", Head(waitLeft), "success", TRUE)>>)
    /\ UNCHANGED <<waitsHonoured, retriesHonoured, outsideAct>>

\* for (const command of commandsToExecute) { try { result = await executeSomCommand } ... }
ExecCommand ==
    /\ pc = "cmds"
    /\ actLeft # <<>>
    /\ \E b \in DriverBehaviours :
         LET r == executeSomCommand(b) IN
         /\ MayRun(b)
         /\ orphans' = IF r.stillRunning THEN orphans + 1 ELSE orphans
         /\ IF r.throws # "none"
            THEN \* reannotationRequested / navigationRetryRequested = true; break
                 RetryRound /\ roundTrace' = <<>> /\ UNCHANGED lastResult
            ELSE /\ aggregateResults' = Append(aggregateResults, Result("cmd", r.status))
                 /\ lastResult' = Result("cmd", r.status)
                 /\ pc' = "post"
                 /\ roundTrace' = Append(roundTrace, Event("action", Head(actLeft), r.status,
                                                           ~r.stillRunning))
                 /\ UNCHANGED <<waitCount, preActionRetryCount, thrown>>
    /\ ReplyScope
    /\ ListScope(<<>>, <<>>, actLeft)
    /\ Executed(roundExecuted + 1)
    /\ UNCHANGED <<waitRetryLimit, waitRun, navSeen>>
    /\ UNCHANGED <<waitsHonoured, retriesHonoured, outsideAct>>

\* PostCommand without `if (result.status === FAILURE) { ...; break }`
PostCommand_ContinuesAfterFailure ==
    /\ pc = "post"
    /\ \E navigation \in BOOLEAN :
         IF navigation
         THEN RetryRound
         ELSE /\ pc' = "cmds"
              /\ UNCHANGED <<thrown, aggregateResults, waitCount, preActionRetryCount>>
    /\ lastResult' = NoResult
    /\ ReplyScope
    /\ ListScope(<<>>, <<>>, IF pc' = "cmds" THEN Tail(actLeft) ELSE actLeft)
    /\ Executed(roundExecuted)
    /\ UNCHANGED <<waitRetryLimit, orphans, waitRun, navSeen>>
    /\ Traced(<<>>)
    /\ UNCHANGED <<waitsHonoured, retriesHonoured, outsideAct>>

\* waitForPageStability; updateSom (navigation: retry); if (result.status === FAILURE) break
PostCommand ==
    /\ pc = "post"
    /\ \E navigation \in BOOLEAN :
         IF navigation
         THEN RetryRound
         ELSE /\ IF lastResult.status = "failure"
                 THEN /\ pc' = "thrown"
                      /\ thrown' = PlainError("commandFailed")
                 ELSE /\ pc' = "cmds"
                      /\ UNCHANGED thrown
              /\ UNCHANGED <<aggregateResults, waitCount, preActionRetryCount>>
    /\ lastResult' = NoResult
    /\ ReplyScope
    /\ ListScope(<<>>, <<>>, IF pc' = "cmds" THEN Tail(actLeft) ELSE actLeft)
    /\ Executed(roundExecuted)
    /\ UNCHANGED <<waitRetryLimit, orphans, waitRun, navSeen>>
    /\ Traced(<<>>)
    /\ UNCHANGED <<waitsHonoured, retriesHonoured, outsideAct>>

\* return { command_results: aggregateResults, status: SUCCESS }
Finish ==
    /\ pc = "cmds"
    /\ actLeft = <<>>
    /\ pc' = "done"
    /\ UNCHANGED <<waitRetryLimit, waitCount, preActionRetryCount, aggregateResults,
                   rawReply, aiResult, preLeft, waitLeft, actLeft, lastResult, thrown,
                   orphans, roundExecuted, waitRun, navSeen>>
    /\ Traced(<<>>)
    /\ UNCHANGED <<waitsHonoured, retriesHonoured, outsideAct>>

\* a runCommand call that lost the race to its timer finishes its driver operations
OrphanSettles ==
    /\ orphans > 0
    /\ orphans' = orphans - 1
    /\ UNCHANGED <<pc, waitRetryLimit, waitCount, preActionRetryCount, aggregateResults,
                   rawReply, aiResult, preLeft, waitLeft, actLeft, lastResult, thrown,
                   roundExecuted, waitRun, navSeen>>
    /\ Traced(<<>>)
    /\ UNCHANGED <<waitsHonoured, retriesHonoured, outsideAct>>

(***************************************************************************)
(* verify(): one round trip per iteration.                                 *)
(***************************************************************************)
Confidences == {0, 40, 69, 70, 85, 100}

EmptyReply == [f \in {} |-> FALSE]

\* replies in which each field is present or left out
VerifyRawReplies ==
    {vs @@ cf @@ sc @@ rf :
        vs \in {EmptyReply} \cup {[verificationSuccess |-> b] : b \in BOOLEAN},
        cf \in {EmptyReply} \cup {[confidence |-> c] : c \in Confidences},
        sc \in {EmptyReply} \cup {[stepCompleted |-> b] : b \in BOOLEAN},
        rf \in {EmptyReply} \cup {[requestSomRefresh |-> b] : b \in BOOLEAN}}

\* options?.confidence_threshold: left out, or a number
ThresholdOptions ==
    {[given |-> FALSE, value |-> 0]} \cup {[given |-> TRUE, value |-> t] : t \in {-10, 0, 85}}

\* Math.max(0, options?.confidence_threshold ?? DEFAULT_CONFIDENCE_THRESHOLD)
Threshold(options) ==
    Max(0, IF options.given THEN options.value ELSE DEFAULT_CONFIDENCE_THRESHOLD)

extractVerification(result) ==
    IF "verificationSuccess" \notin DOMAIN result THEN [throws |-> TRUE]
    ELSE IF "confidence" \notin DOMAIN result THEN [throws |-> TRUE]
    ELSE [throws |-> FALSE,
          verificationSuccess |-> result["verificationSuccess"],
          confidence |-> result["confidence"]]

Assertion(name, actual, expected, pass) ==
    [name |-> name, actual |-> actual, expected |-> expected, pass |-> pass]

\* expectFn(confidence, msg).toBeGreaterThanOrEqual(threshold);
\* expectFn(verificationSuccess, msg).toBe(true): a failing hard assertion throws,
\* a failing soft one is recorded by the host and the code goes on
RunAssertions_Both(confidence, success, threshold, mode) ==
    [asserts |-> <<Assertion("confidence", confidence, threshold, confidence >= threshold),
                   Assertion("verificationSuccess", IF success THEN 1 ELSE 0, 1, success)>>,
     threw |-> mode = "hard" /\ (confidence < threshold \/ ~success)]

RunAssertions(confidence, success, threshold, mode) ==
    LET first == Assertion("confidence", confidence, threshold, confidence >= threshold)
        second == Assertion("verificationSuccess", IF success THEN 1 ELSE 0, 1, success)
    IN  IF mode = "hard" /\ ~first.pass
        THEN [asserts |-> <<first>>, threw |-> TRUE]
        ELSE [asserts |-> <<first, second>>, threw |-> mode = "hard" /\ ~second.pass]

VerifyStabilize ==
    /\ vpc = "stabilize"
    /\ \E navs \in 0..(vLimit + 1) :
         LET st == stabilizeForLlm(vWaitCount, vLimit, navs) IN
         IF st.throws
         THEN /\ vpc' = "thrown"
              /\ vThrown' = LimitError("navigationLimit", vLimit)
              /\ UNCHANGED vWaitCount
         ELSE /\ vpc' = "query"
              /\ vWaitCount' = st.waitCount
              /\ UNCHANGED vThrown
    /\ UNCHANGED <<vLimit, vOptions, vExpect, vRaw, vResult, vAsserts, vQueryRetries>>
    /\ UNCHANGED outsideVerify

\* try { aiResult = await callAiAction(...) } catch (navigation) { ...; continue }
VerifyQuery ==
    /\ vpc = "query"
    /\ \/ \E raw \in VerifyRawReplies :
            /\ vRaw' = raw
            /\ vResult' = validateAiActionResult(raw)
            /\ vpc' = "reply"
            /\ UNCHANGED <<vWaitCount, vThrown, vQueryRetries>>
       \/ \* the call rejects with a navigation error
          /\ vWaitCount' = ClampedIncrement(vWaitCount, vLimit)
          /\ IF vWaitCount' > vLimit
             THEN /\ vpc' = "thrown"
                  /\ vThrown' = LimitError("navigationLimit", vLimit)
                  /\ UNCHANGED vQueryRetries
             ELSE /\ vpc' = "stabilize"
                  /\ vQueryRetries' = Min(vQueryRetries + 1, HonouredCap)
                  /\ UNCHANGED vThrown
          /\ UNCHANGED <<vRaw, vResult>>
       \/ \* the call rejects with another error
          /\ vpc' = "thrown"
          /\ vThrown' = PlainError("oracleError")
          /\ UNCHANGED <<vWaitCount, vRaw, vResult, vQueryRetries>>
    /\ UNCHANGED <<vLimit, vOptions, vExpect, vAsserts>>
    /\ UNCHANGED outsideVerify

VerifyHandleReply ==
    /\ vpc = "reply"
    /\ IF Flag(vResult, "requestSomRefresh")
       THEN /\ vWaitCount' = ClampedIncrement(vWaitCount, vLimit)
            /\ vpc' = "stabilize"
            /\ UNCHANGED <<vAsserts, vThrown>>
       ELSE LET ev == extractVerification(vResult) IN
            IF ev.throws
            THEN /\ vpc' = "thrown"
                 /\ vThrown' = PlainError("missingField")
                 /\ UNCHANGED <<vWaitCount, vAsserts>>
            ELSE IF Flag(vResult, "stepCompleted") \/ ev.verificationSuccess
            THEN /\ vpc' = "returned"
                 /\ UNCHANGED <<vWaitCount, vAsserts, vThrown>>
            ELSE IF vExpect = "missing"
            THEN /\ vpc' = "thrown"
                 /\ vThrown' = PlainError("expectMissing")
                 /\ UNCHANGED <<vWaitCount, vAsserts>>
            ELSE LET ran == RunAssertions(ev.confidence, ev.verificationSuccess,
                                          Threshold(vOptions), vExpect) IN
                 /\ vAsserts' = ran.asserts
                 /\ vpc' = IF ran.threw THEN "assertFailed" ELSE "returned"
                 /\ UNCHANGED <<vWaitCount, vThrown>>
    /\ UNCHANGED <<vLimit, vOptions, vExpect, vRaw, vResult, vQueryRetries>>
    /\ UNCHANGED outsideVerify

VerifyInit ==
    /\ vpc = "stabilize"
    /\ vLimit \in {getMaxWaitRetries(raw) : raw \in EnvValues}
    /\ vWaitCount = 0
    /\ vOptions \in ThresholdOptions
    /\ vExpect \in {"hard", "soft", "missing"}
    /\ vRaw = EmptyReply
    /\ vResult = EmptyReply
    /\ vAsserts = <<>>
    /\ vThrown = NoError
    /\ vQueryRetries = 0

\* no verify() call is running
VerifyIdle ==
    /\ vpc = "idle"
    /\ vLimit = DEFAULT_WAIT_RETRY_LIMIT
    /\ vWaitCount = 0
    /\ vOptions = [given |-> FALSE, value |-> 0]
    /\ vExpect = "hard"
    /\ vRaw = EmptyReply
    /\ vResult = EmptyReply
    /\ vAsserts = <<>>
    /\ vThrown = NoError
    /\ vQueryRetries = 0

\* no act() call is running
ActIdle ==
    /\ pc = "idle"
    /\ waitRetryLimit = DEFAULT_WAIT_RETRY_LIMIT
    /\ waitCount = 0
    /\ preActionRetryCount = 0
    /\ aggregateResults = <<>>
    /\ rawReply = NoReply
    /\ aiResult = NoReply
    /\ preLeft = <<>>
    /\ waitLeft = <<>>
    /\ actLeft = <<>>
    /\ lastResult = NoResult
    /\ thrown = NoError
    /\ orphans = 0
    /\ roundExecuted = 0
    /\ waitRun = 0
    /\ navSeen = FALSE
    /\ waitsHonoured = 0
    /\ retriesHonoured = 0
    /\ roundTrace = <<>>

(***************************************************************************)
(* The annotator: PageSoMHandler.updateSom.  The candidates of the page    *)
(* are the nodes 1..NumNodes in the order the scan discovers them.         *)
(***************************************************************************)
Nodes == 1..NumNodes

\* top hit at each of the five test points (centre, four inset corners):
\* TRUE when it is the element, an ancestor or a descendant of it
Covered == <<FALSE, FALSE, FALSE, FALSE, FALSE>>
CornerOnly == <<FALSE, FALSE, FALSE, FALSE, TRUE>>
Clear == <<TRUE, TRUE, TRUE, TRUE, TRUE>>

\* what the filters read of a candidate; elementFromPoint has no hit outside
\* the viewport
NodeStates ==
    {[hidden |-> TRUE, disabled |-> FALSE, inViewport |-> TRUE, hits |-> Clear]}
    \cup {[hidden |-> FALSE, disabled |-> d, inViewport |-> TRUE, hits |-> h] :
             d \in BOOLEAN, h \in {Covered, CornerOnly, Clear}}
    \cup {[hidden |-> FALSE, disabled |-> d, inViewport |-> FALSE, hits |-> Covered] :
             d \in BOOLEAN}

\* tc-som-id attribute of a node: 0 when the node does not carry it
NoAttr == [set |-> FALSE, id |-> 0]

visiblePoints(node) == Cardinality({i \in DOMAIN node.hits : node.hits[i]})

\* the filter chain of the scan: TRUE when the candidate gets an id
Kept(node, includeOffscreen, includeDisabled) ==
    IF node.hidden THEN FALSE
    ELSE IF node.disabled /\ ~includeDisabled THEN FALSE
    ELSE IF ~includeOffscreen /\ node.inViewport THEN ~(visiblePoints(node) < 1)
    ELSE IF includeOffscreen /\ ~node.inViewport THEN TRUE
    ELSE IF ~includeOffscreen /\ ~node.inViewport THEN FALSE
    ELSE TRUE

\* variant: the counter also advances past a candidate that is filtered out
NextId_CountsSkipped(idCounter, kept) == idCounter + 1

\* const somId = String(idCounter++)
NextId(idCounter, kept) == IF kept THEN idCounter + 1 ELSE idCounter

RECURSIVE Scan(_, _, _, _, _)
Scan(n, st, d, includeOffscreen, includeDisabled) ==
    IF n > NumNodes THEN st
    ELSE LET kept == Kept(d[n], includeOffscreen, includeDisabled)
             after == IF kept
                      THEN [attr |-> [st.attr EXCEPT ![n] = [set |-> TRUE, id |-> st.idCounter]],
                            elements |-> Append(st.elements,
                                                [somId |-> st.idCounter, node |-> n]),
                            idCounter |-> NextId(st.idCounter, kept)]
                      ELSE [st EXCEPT !.idCounter = NextId(st.idCounter, kept)]
         IN  Scan(n + 1, after, d, includeOffscreen, includeDisabled)

\* the page.evaluate body: idCounter starts at 1, attributes already on the
\* nodes are left as they are unless the node is marked again
Evaluate(d, a, includeOffscreen, includeDisabled) ==
    Scan(1, [attr |-> a, elements |-> <<>>, idCounter |-> 1], d,
         includeOffscreen, includeDisabled)

\* this.somMap.clear(); elements.forEach(el => this.somMap.set(el.somId, el))
Rebuild(els) ==
    [id \in {els[i].somId : i \in DOMAIN els} |->
        els[CHOOSE i \in DOMAIN els :
                /\ els[i].somId = id
                /\ \A j \in DOMAIN els : els[j].somId = id => j <= i]]

EmptyMap == [id \in {} |-> [somId |-> 0, node |-> 0]]

\* updateSom without the check of this.page: page.evaluate rejects on a closed page
UpdateSom_NoPageCheck ==
    /\ \E includeOffscreen \in BOOLEAN, includeDisabled \in BOOLEAN :
         /\ lastArgs' = [includeOffscreen |-> includeOffscreen,
                         includeDisabled |-> includeDisabled]
         /\ IF pageClosed
            THEN /\ lastPass' = "threw"
                 /\ passFresh' = FALSE
                 /\ UNCHANGED <<attr, somMap, elements, lastCount>>
            ELSE LET out == Evaluate(dom, attr, includeOffscreen, includeDisabled) IN
                 /\ attr' = out.attr
                 /\ elements' = out.elements
                 /\ somMap' = Rebuild(out.elements)
                 /\ lastCount' = Len(out.elements)
                 /\ passFresh' = TRUE
                 /\ lastPass' = "returned"
    /\ UNCHANGED <<dom, pageClosed>>
    /\ UNCHANGED outsideSom

UpdateSom ==
    /\ \E includeOffscreen \in BOOLEAN, includeDisabled \in BOOLEAN :
         /\ lastArgs' = [includeOffscreen |-> includeOffscreen,
                         includeDisabled |-> includeDisabled]
         /\ IF pageClosed
            THEN /\ lastCount' = 0
                 /\ lastPass' = "returned"
                 /\ passFresh' = FALSE
                 /\ UNCHANGED <<attr, somMap, elements>>
            ELSE LET out == Evaluate(dom, attr, includeOffscreen, includeDisabled) IN
                 /\ attr' = out.attr
                 /\ elements' = out.elements
                 /\ somMap' = Rebuild(out.elements)
                 /\ lastCount' = Len(out.elements)
                 /\ passFresh' = TRUE
                 /\ lastPass' = "returned"
    /\ UNCHANGED <<dom, pageClosed>>
    /\ UNCHANGED outsideSom

\* the page changes between two passes
DomChange ==
    /\ ~pageClosed
    /\ \E n \in Nodes, ns \in NodeStates :
         /\ dom[n] # ns
         /\ dom' = [dom EXCEPT ![n] = ns]
    /\ passFresh' = FALSE
    /\ UNCHANGED <<attr, somMap, elements, lastArgs, lastCount, pageClosed, lastPass>>
    /\ UNCHANGED outsideSom

ClosePage ==
    /\ ~pageClosed
    /\ pageClosed' = TRUE
    /\ passFresh' = FALSE
    /\ UNCHANGED <<dom, attr, somMap, elements, lastArgs, lastCount, lastPass>>
    /\ UNCHANGED outsideSom

\* a fresh handler on a freshly loaded page
SomInit ==
    /\ dom \in [Nodes -> NodeStates]
    /\ attr = [n \in Nodes |-> NoAttr]
    /\ somMap = EmptyMap
    /\ elements = <<>>
    /\ lastArgs = [includeOffscreen |-> FALSE, includeDisabled |-> FALSE]
    /\ lastCount = 0
    /\ passFresh = FALSE
    /\ pageClosed = FALSE
    /\ lastPass = "none"

\* the annotator is not looked at
SomIdle ==
    /\ dom = [n \in Nodes |-> [hidden |-> FALSE, disabled |-> FALSE,
                               inViewport |-> TRUE, hits |-> Clear]]
    /\ attr = [n \in Nodes |-> NoAttr]
    /\ somMap = EmptyMap
    /\ elements = <<>>
    /\ lastArgs = [includeOffscreen |-> FALSE, includeDisabled |-> FALSE]
    /\ lastCount = 0
    /\ passFresh = FALSE
    /\ pageClosed = FALSE
    /\ lastPass = "none"

(***************************************************************************)
(* The oracle client: callAiAction = withRetry(provider call), JSON.parse, *)
(* validateAiActionResult.  A JSON value is a record tagged with its type. *)
(***************************************************************************)
JBool(b) == [t |-> "boolean", b |-> b]
JStr(s) == [t |-> "string", s |-> s]
JNum(n) == [t |-> "number", n |-> n]
JNull == [t |-> "null"]
JArr(items) == [t |-> "array", items |-> items]
\* an object with an `action` member, as a SomCommand is
JCmd(action) == [t |-> "object", action |-> action]

JsonSamples ==
    {JBool(TRUE), JStr("text"), JNum(40), JNum(101), JNum(-1), JNull,
     JArr(<<>>), JArr(<<JStr("12")>>), JArr(<<JNum(7)>>),
     JArr(<<JCmd("click")>>), JArr(<<JCmd("bogus")>>)}

\* the members of AiActionResult
DefinedFields ==
    {"preCommands", "extractedContentList", "extractedContent", "confidence",
     "verificationSuccess", "verificationReason", "commandsToRun", "shouldWait",
     "waitReason", "needsRetryAfterPreActions", "requestSomRefresh",
     "somRefreshReason", "stepCompleted"}

\* a member the interface does not know
UnknownField == "notes"

PayloadFields == DefinedFields \cup {UnknownField}

\* the objects JSON.parse may return, with at most MaxFields members
ObjectPayloads ==
    UNION {[D -> JsonSamples] :
              D \in {X \in SUBSET PayloadFields : Cardinality(X) <= MaxFields}}

\* Object.values(InteractionAction).includes(command.action)
validateSomCommand(command) == command.t = "object" /\ command.action \in Actions

IsCommandArray(v) ==
    /\ v.t = "array"
    /\ \A i \in DOMAIN v.items : validateSomCommand(v.items[i])

IsStringArray(v) ==
    /\ v.t = "array"
    /\ \A i \in DOMAIN v.items : v.items[i].t = "string"

\* the test validateAiActionResult applies to a member that is present
FieldCheck(f, v) ==
    CASE f \in {"preCommands", "commandsToRun"} -> IsCommandArray(v)
      [] f \in {"verificationSuccess", "shouldWait", "needsRetryAfterPreActions",
                "stepCompleted"} -> v.t = "boolean"
      [] f \in {"extractedContent", "waitReason", "verificationReason"} -> v.t = "string"
      [] f = "extractedContentList" -> IsStringArray(v)
      [] f = "confidence" -> v.t = "number" /\ ~(v.n < 0 \/ v.n > 100)
      [] OTHER -> TRUE

\* validateAiActionResult on a parsed object: throws on the first member that
\* fails its test, else returns the members it copies
validatePayload(data) ==
    IF \E f \in (DOMAIN data) \cap CopiedFields : ~FieldCheck(f, data[f])
    THEN [throws |-> TRUE, result |-> EmptyReply]
    ELSE [throws |-> FALSE, result |-> [f \in (DOMAIN data) \cap CopiedFields |-> data[f]]]

\* what provider.callLLM does on one invocation
ProviderOutcomes == {"object", "scalar", "malformed", "empty", "http400", "http500",
                     "network", "falsy"}

ClientError(kind) == [kind |-> kind]
NoClientError == ClientError("none")
NoPayload == [kind |-> "none", fields |-> EmptyReply]

\* isRetryableError: a falsy error is not, an error with a response is when
\* its status is >= 500, any other error is
isRetryableError(outcome) ==
    CASE outcome = "falsy" -> FALSE
      [] outcome = "http400" -> 400 >= 500
      [] outcome = "http500" -> 500 >= 500
      [] OTHER -> TRUE

\* variant: the delay grows by a fixed step
NextDelay_Linear(d) == d + DEFAULT_DELAY_MS

\* delayMs * 2
NextDelay(d) == d * 2

\* try { return await action() } catch (error) { if (retries <= 0 || !isRetryableError(error)) throw error; ... }
CallProvider ==
    /\ cpc = "call"
    /\ attempts' = attempts + 1
    /\ \E outcome \in ProviderOutcomes :
         IF outcome \in {"object", "scalar", "malformed"}
         THEN /\ cpc' = "parse"
              /\ IF outcome = "object"
                 THEN \E data \in ObjectPayloads :
                        payload' = [kind |-> "object", fields |-> data]
                 ELSE payload' = [kind |-> outcome, fields |-> EmptyReply]
              /\ UNCHANGED cError
         ELSE /\ IF retries <= 0 \/ ~isRetryableError(outcome)
                 THEN cpc' = "thrown" /\ cError' = ClientError(outcome)
                 ELSE cpc' = "backoff" /\ UNCHANGED cError
              /\ UNCHANGED payload
    /\ UNCHANGED <<retries, delayMs, delays, cResult>>
    /\ UNCHANGED outsideClient

\* await setTimeout(delayMs); return withRetry(action, retries - 1, delayMs * 2)
Backoff ==
    /\ cpc = "backoff"
    /\ delays' = Append(delays, delayMs)
    /\ retries' = retries - 1
    /\ delayMs' = NextDelay(delayMs)
    /\ cpc' = "call"
    /\ UNCHANGED <<attempts, payload, cResult, cError>>
    /\ UNCHANGED outsideClient

\* parsed = JSON.parse(raw); return validateAiActionResult(parsed)
ParseAndValidate ==
    /\ cpc = "parse"
    /\ IF payload.kind = "malformed"
       THEN cpc' = "thrown" /\ cError' = ClientError("parse") /\ UNCHANGED cResult
       ELSE IF payload.kind = "scalar"
       THEN cpc' = "thrown" /\ cError' = ClientError("notObject") /\ UNCHANGED cResult
       ELSE LET v == validatePayload(payload.fields) IN
            IF v.throws
            THEN cpc' = "thrown" /\ cError' = ClientError("validation") /\ UNCHANGED cResult
            ELSE cpc' = "returned" /\ cResult' = v.result /\ UNCHANGED cError
    /\ UNCHANGED <<retries, delayMs, attempts, delays, payload>>
    /\ UNCHANGED outsideClient

ClientInit ==
    /\ cpc = "call"
    /\ retries = DEFAULT_RETRIES
    /\ delayMs = DEFAULT_DELAY_MS
    /\ attempts = 0
    /\ delays = <<>>
    /\ payload = NoPayload
    /\ cResult = EmptyReply
    /\ cError = NoClientError

\* no callAiAction call is looked at
ClientIdle ==
    /\ cpc = "idle"
    /\ retries = DEFAULT_RETRIES
    /\ delayMs = DEFAULT_DELAY_MS
    /\ attempts = 0
    /\ delays = <<>>
    /\ payload = NoPayload
    /\ cResult = EmptyReply
    /\ cError = NoClientError

(***************************************************************************)
(* extract(): one oracle call, then computeExtractResult.  A string is a   *)
(* sequence of characters; a number is what Number() makes of it.          *)
(***************************************************************************)
Digits == {"0", "1", "2", "3", "4", "5", "6", "7", "8", "9"}

DigitValue(c) ==
    CASE c = "0" -> 0 [] c = "1" -> 1 [] c = "2" -> 2 [] c = "3" -> 3 [] c = "4" -> 4
      [] c = "5" -> 5 [] c = "6" -> 6 [] c = "7" -> 7 [] c = "8" -> 8 [] c = "9" -> 9

Str12 == <<"1", "2">>
Str7 == <<"7">>
StrAbc == <<"a", "b", "c">>
StrEmpty == <<>>
StrPadded7 == <<" ", "7">>
StrBlank == <<" ">>
StrOneAndHalf == <<"1", ".", "5">>
StrInfinity == <<"I", "n", "f", "i", "n", "i", "t", "y">>

\* the texts an oracle is taken to put into extractedContent(List)
SampleStrings ==
    {Str12, Str7, StrAbc, StrEmpty, StrPadded7, StrBlank, StrOneAndHalf, StrInfinity}

RECURSIVE TrimLeft(_)
TrimLeft(s) == IF s # <<>> /\ Head(s) = " " THEN TrimLeft(Tail(s)) ELSE s

RECURSIVE TrimRight(_)
TrimRight(s) ==
    IF s # <<>> /\ s[Len(s)] = " " THEN TrimRight(SubSeq(s, 1, Len(s) - 1)) ELSE s

Trim(s) == TrimRight(TrimLeft(s))

RECURSIVE DigitsValue(_)
DigitsValue(s) ==
    IF s = <<>> THEN 0
    ELSE 10 * DigitsValue(SubSeq(s, 1, Len(s) - 1)) + DigitValue(s[Len(s)])

AllDigits(s) == \A i \in DOMAIN s : s[i] \in Digits

NaN == [kind |-> "NaN", whole |-> 0, frac |-> <<>>]
Infinite == [kind |-> "Infinity", whole |-> 0, frac |-> <<>>]
Finite(whole, frac) == [kind |-> "finite", whole |-> whole, frac |-> frac]

\* Number(value) on a string: white space is trimmed, the empty string is 0,
\* "Infinity" is infinite, an unsigned decimal literal is its value, anything
\* else is NaN
Number(value) ==
    LET t == Trim(value)
        dots == {i \in DOMAIN t : t[i] = "."}
    IN  IF t = <<>> THEN Finite(0, <<>>)
        ELSE IF t = StrInfinity THEN Infinite
        ELSE IF dots = {} THEN (IF AllDigits(t) THEN Finite(DigitsValue(t), <<>>) ELSE NaN)
        ELSE IF Cardinality(dots) > 1 THEN NaN
        ELSE LET d == CHOOSE i \in dots : TRUE
                 whole == SubSeq(t, 1, d - 1)
                 frac == SubSeq(t, d + 1, Len(t))
             IN  IF AllDigits(whole) /\ AllDigits(frac) /\ Len(whole) + Len(frac) > 0
                 THEN Finite(DigitsValue(whole), frac)
                 ELSE NaN

\* castToNumber: throws unless Number.isFinite(parsed)
castToNumber(value) ==
    LET parsed == Number(value) IN
    IF parsed.kind # "finite" THEN [throws |-> TRUE, value |-> parsed]
    ELSE [throws |-> FALSE, value |-> parsed]

\* values.map((value) => castToNumber(value, fieldName))
castStringArrayToNumbers(values) ==
    IF \E i \in DOMAIN values : castToNumber(values[i]).throws
    THEN [throws |-> TRUE, value |-> <<>>]
    ELSE [throws |-> FALSE, value |-> [i \in DOMAIN values |-> castToNumber(values[i]).value]]

ReturnTypes == {"unset", "string", "string_array", "int", "int_array"}

\* replies as callAiAction hands them over: each field present or left out
ExtractReplies ==
    {c @@ l :
        c \in {EmptyReply} \cup {[extractedContent |-> s] : s \in SampleStrings},
        l \in {EmptyReply} \cup
              {[extractedContentList |-> q] : q \in SeqsUpTo(SampleStrings, MaxListLen)}}

Threw(message) == [kind |-> "thrown", message |-> message]
Returned(kind, value) == [kind |-> kind, value |-> value]
NoOutput == [kind |-> "none"]

computeExtractResult(result, options) ==
    LET returnType == IF options = "unset" THEN "string" ELSE options
        list == IF "extractedContentList" \in DOMAIN result
                THEN result["extractedContentList"] ELSE <<>>
        hasContent == "extractedContent" \in DOMAIN result /\ result["extractedContent"] # <<>>
        content == IF hasContent THEN result["extractedContent"] ELSE <<>>
        orContent == IF Len(list) > 0 THEN list ELSE IF hasContent THEN <<content>> ELSE <<>>
    IN  IF ~hasContent /\ Len(list) = 0 THEN Threw("noContent")
        ELSE CASE returnType = "string_array" -> Returned("strings", orContent)
               [] returnType = "int_array" ->
                    LET cast == castStringArrayToNumbers(orContent) IN
                    IF cast.throws THEN Threw("notNumeric") ELSE Returned("numbers", cast.value)
               [] returnType = "int" ->
                    IF hasContent
                    THEN LET cast == castToNumber(content) IN
                         IF cast.throws THEN Threw("notNumeric")
                         ELSE Returned("number", cast.value)
                    ELSE IF Len(list) = 1
                    THEN LET cast == castToNumber(list[1]) IN
                         IF cast.throws THEN Threw("notNumeric")
                         ELSE Returned("number", cast.value)
                    ELSE Threw("notSingleNumber")
               [] OTHER ->
                    IF Len(list) > 1 THEN Returned("strings", list)
                    ELSE IF Len(list) = 1 THEN Returned("string", list[1])
                    ELSE IF hasContent THEN Returned("string", content)
                    ELSE Threw("notString")

\* const aiResult = await callAiAction(...)
ExtractQuery ==
    /\ epc = "query"
    /\ \/ \E reply \in ExtractReplies :
            /\ eReply' = reply
            /\ epc' = "compute"
            /\ UNCHANGED eOut
       \/ /\ epc' = "thrown"
          /\ eOut' = Threw("oracleError")
          /\ UNCHANGED eReply
    /\ UNCHANGED eOptions
    /\ UNCHANGED outsideExtract

\* const extracted = computeExtractResult(aiResult, options); return extracted
ExtractCompute ==
    /\ epc = "compute"
    /\ eOut' = computeExtractResult(eReply, eOptions)
    /\ epc' = IF eOut'.kind = "thrown" THEN "thrown" ELSE "returned"
    /\ UNCHANGED <<eOptions, eReply>>
    /\ UNCHANGED outsideExtract

ExtractInit ==
    /\ epc = "query"
    /\ eOptions \in ReturnTypes
    /\ eReply = EmptyReply
    /\ eOut = NoOutput

\* no extract() call is looked at
ExtractIdle ==
    /\ epc = "idle"
    /\ eOptions = "unset"
    /\ eReply = EmptyReply
    /\ eOut = NoOutput

(***************************************************************************)
(* The Action Executor: PageSoMHandler.runCommand, raced against the       *)
(* per-command timer of the orchestrator.                                  *)
(*                                                                         *)
(* Strings the code builds from a selector are sequences of tokens, so     *)
(* that formatting and String.includes are computed and not assumed.       *)
(***************************************************************************)
maxAttempts == 7

Undefined == "undefined"

StrictMode == "strict mode violation"
TimeoutExceeded == "Timeout 4000ms exceeded"
TimeoutNotEnabled == "Timeout 4000ms exceeded: element is not enabled"
\* a timeout whose call log reports the element as detached
TimeoutDetached == "Timeout 4000ms exceeded: element was detached from the DOM"
Intercepted == "element intercepts pointer events"

\* error.message of what the driver throws for an action on a locator
ErrorMessages ==
    {StrictMode, TimeoutExceeded, TimeoutNotEnabled, TimeoutDetached, Intercepted}

\* errorMsg.includes(phrase), for the phrases applyHeuristicsAndRetry looks for
Includes(errorMsg, phrase) ==
    CASE errorMsg = StrictMode -> phrase = "strict mode violation"
      [] errorMsg = TimeoutExceeded -> phrase = "Timeout"
      [] errorMsg = TimeoutNotEnabled -> phrase \in {"Timeout", "not enabled"}
      [] errorMsg = TimeoutDetached -> phrase \in {"Timeout", "detached"}
      [] OTHER -> FALSE

\* what one driver call does: it resolves, or throws one of the messages
DriverOutcomes == {"ok"} \cup ErrorMessages

\* an entry of the somMap, reduced to what selector synthesis and the heuristics read;
\* present = FALSE: this.somMap.get(command.elementRef) is undefined
\* (elements with no label, name, placeholder, aria-label or class of their own;
\* submitButton: tag 'button' with type 'submit'; role: element.role is set)
SomElements ==
    {e \in [present : BOOLEAN, id : BOOLEAN, text : BOOLEAN, parentClass : BOOLEAN,
            hasVisiblePseudoElement : BOOLEAN, role : BOOLEAN, submitButton : BOOLEAN] :
        ~e.present => (~e.id /\ ~e.text /\ ~e.parentClass /\ ~e.hasVisiblePseudoElement
                       /\ ~e.role /\ ~e.submitButton)}

NoElement ==
    [present |-> FALSE, id |-> FALSE, text |-> FALSE, parentClass |-> FALSE,
     hasVisiblePseudoElement |-> FALSE, role |-> FALSE, submitButton |-> FALSE]

\* kind: what the command targets; action: its InteractionAction
ExecCommands ==
    { [kind |-> "navigation", action |-> "navigate"],
      [kind |-> "percent", action |-> "click"],
      [kind |-> "untargeted", action |-> "click"],
      [kind |-> "marker", action |-> "click"],
      [kind |-> "marker", action |-> "select"],
      [kind |-> "marker", action |-> "hover"] }

\* { type: 'locator', value: `[tc-som-id="${command.elementRef}"]` }
somIdSelector == [type |-> "locator", value |-> <<"[tc-som-id=ref]">>]

generateSemanticSelectors_TextForPseudo(el) ==
    (IF el.id THEN <<[type |-> "id", value |-> <<"elementId">>]>> ELSE <<>>)
    \o (IF el.text THEN <<[type |-> "text", value |-> <<"elementText">>]>> ELSE <<>>)

generateSemanticSelectors(el) ==
    (IF el.id THEN <<[type |-> "id", value |-> <<"elementId">>]>> ELSE <<>>)
    \o (IF el.hasVisiblePseudoElement /\ el.submitButton
        THEN <<[type |-> "locator", value |-> <<"button[type=submit]">>]>>
        ELSE <<>>)
    \o (IF ~el.hasVisiblePseudoElement /\ el.role /\ el.text
        THEN <<[type |-> "role", value |-> <<"elementRole">>,
                roleOptions |-> [name |-> <<"elementText">>]]>>
        ELSE <<>>)
    \o (IF ~el.hasVisiblePseudoElement /\ el.text
        THEN <<[type |-> "text", value |-> <<"elementText">>]>>
        ELSE <<>>)
    \o (IF el.parentClass
        THEN <<[type |-> "locator", value |-> <<".parentClass", " ", "tag">>]>>
        ELSE <<>>)

formatSelector(sel) ==
    CASE sel.type = "id" -> <<"page.locator('#">> \o sel.value \o <<"')">>
      [] sel.type = "text" -> <<"page.getByText('">> \o sel.value \o <<"')">>
      [] sel.type = "role" -> <<"page.getByRole('">> \o sel.value \o <<"', {name: '">>
                              \o sel.roleOptions.name \o <<"'})">>
      [] OTHER -> <<"page.locator('">> \o sel.value \o <<"')">>

\* typedSelector.value.includes(parentClass)
IncludesParentClass(value) == \E i \in DOMAIN value : value[i] = ".parentClass"

\* { type: 'locator', value: `.${parentClass} ${typedSelector.value}` }
RefinedSelector(sel) == [type |-> "locator", value |-> <<".parentClass", " ">> \o sel.value]

NoSelector == <<>>

\* the `command` text of a failed attempt: which form it has and the selector it quotes
SelectorText(selectorDesc) == [form |-> "selector", selector |-> selectorDesc]
PlaywrightText(selectorDesc, action) == [form |-> action, selector |-> selectorDesc]
PlainText(form) == [form |-> form, selector |-> NoSelector]

\* executeActionOnLocator: error.playwrightCommand = commandString || `await ${selector}.${action}()`
getCommandFromError(selectorDesc, action) == PlaywrightText(selectorDesc, action)

FailedAttempt(text, errorMsg) == [command |-> text, status |-> "failure", error |-> errorMsg]

SuccessAttempt(text) == [command |-> text, status |-> "success"]
\* the result has no successAttempt member
NoSuccessAttempt == [command |-> PlainText("undefined"), status |-> "undefined"]

SuccessResult(failed, text) ==
    [status |-> "success", failedAttempts |-> failed, successAttempt |-> SuccessAttempt(text),
     error |-> Undefined]
FailureResult(failed, errorMsg) ==
    [status |-> "failure", failedAttempts |-> failed, successAttempt |-> NoSuccessAttempt,
     error |-> errorMsg]
NoRunResult ==
    [status |-> "none", failedAttempts |-> <<>>, successAttempt |-> NoSuccessAttempt,
     error |-> Undefined]

\* `${playwrightCommand} (after scroll)` and the like
Suffixed(text, suffix) == [text EXCEPT !.form = text.form \o suffix]

\* `retry` is what the driver does with the action on the parent-scoped selector
tryRefinedSelector(typedSelector, cmd, el, errorMsg, retry) ==
    IF /\ typedSelector.type = "locator"
       /\ el.parentClass
       /\ ~IncludesParentClass(typedSelector.value)
       /\ retry = "ok"
    THEN SuccessResult(<<FailedAttempt(SelectorText(formatSelector(typedSelector)), errorMsg)>>,
                       PlaywrightText(formatSelector(RefinedSelector(typedSelector)),
                                      cmd.action))
    ELSE FailureResult(<<FailedAttempt(SelectorText(formatSelector(typedSelector)), errorMsg)>>,
                       Undefined)

\* the retry heuristics of applyHeuristicsAndRetry whose phrases the message holds, in the
\* order the code tests them: scroll and retry, retry with force, wait for stability and retry
ApplicableHeuristics(errorMsg) ==
    (IF Includes(errorMsg, "Timeout") /\ ~Includes(errorMsg, "not enabled")
     THEN <<"scroll">> ELSE <<>>)
    \o (IF \/ Includes(errorMsg, "not enabled")
           \/ Includes(errorMsg, "not editable")
           \/ Includes(errorMsg, "not actionable")
        THEN <<"force">> ELSE <<>>)
    \o (IF Includes(errorMsg, "detached") \/ Includes(errorMsg, "moving")
        THEN <<"stability">> ELSE <<>>)

\* what a heuristic returns when its repeated action resolves
HeuristicSuccess(heuristic, text, errorMsg) ==
    CASE heuristic = "scroll" ->
            SuccessResult(<<FailedAttempt(text, "Timeout (first attempt)")>>,
                          Suffixed(text, " (after scroll)"))
      [] heuristic = "force" ->
            SuccessResult(<<FailedAttempt(text, errorMsg)>>, Suffixed(text, " (with force)"))
      [] OTHER ->
            SuccessResult(<<FailedAttempt(text, errorMsg)>>,
                          Suffixed(text, " (after stability wait)"))

applyHeuristicsAndRetry_NoEntry(typedSelector, cmd, el, errorMsg, retry, retry2) ==
    FailureResult(<<>>, Undefined)

\* `retry` is what the driver does with the first repeated action, `retry2` with the
\* second: a heuristic whose repeated action throws falls through to the next test
\* (no message of ErrorMessages holds the phrases of all three retry heuristics)
applyHeuristicsAndRetry(typedSelector, cmd, el, errorMsg, retry, retry2) ==
    LET text == getCommandFromError(formatSelector(typedSelector), cmd.action)
        applicable == ApplicableHeuristics(errorMsg)
    IN
    IF /\ Includes(errorMsg, "strict mode violation")
       /\ typedSelector.type = "locator"
       /\ el.parentClass
    THEN tryRefinedSelector(typedSelector, cmd, el, errorMsg, retry)
    ELSE IF Len(applicable) >= 1 /\ retry = "ok"
    THEN HeuristicSuccess(applicable[1], text, errorMsg)
    ELSE IF Len(applicable) >= 2 /\ retry2 = "ok"
    THEN HeuristicSuccess(applicable[2], text, errorMsg)
    ELSE FailureResult(<<FailedAttempt(text, errorMsg)>>, Undefined)

\* the heuristics one tryExecuteAction call ran, each of which dispatches the action again
HeuristicsRun(typedSelector, el, first, retry) ==
    LET applicable == ApplicableHeuristics(first) IN
    IF first = "ok" THEN <<>>
    ELSE IF /\ Includes(first, "strict mode violation")
            /\ typedSelector.type = "locator"
            /\ el.parentClass
    THEN (IF IncludesParentClass(typedSelector.value) THEN <<>> ELSE <<"parentScope">>)
    ELSE IF retry = "ok" \/ Len(applicable) <= 1
    THEN applicable
    ELSE SubSeq(applicable, 1, 2)

\* what the driver may do with a second repeated action, where the message leads to one
SecondOutcomes(first) ==
    IF Len(ApplicableHeuristics(first)) >= 2 THEN DriverOutcomes ELSE {"ok"}

tryExecuteAction_NoSuccessAttempt(typedSelector, cmd, el, first, retry, retry2) ==
    IF first = "ok"
    THEN [status |-> "success", failedAttempts |-> <<>>, successAttempt |-> NoSuccessAttempt,
          error |-> Undefined]
    ELSE applyHeuristicsAndRetry(typedSelector, cmd, el, first, retry, retry2)

\* `first` is what the driver does with the action on the selector
tryExecuteAction(typedSelector, cmd, el, first, retry, retry2) ==
    IF first = "ok"
    THEN SuccessResult(<<>>, PlaywrightText(formatSelector(typedSelector), cmd.action))
    ELSE applyHeuristicsAndRetry(typedSelector, cmd, el, first, retry, retry2)

\* the selectors one tryExecuteAction call ran the action on and saw it throw, in order
SelectorsFailed(typedSelector, el, first, retry) ==
    IF first = "ok" THEN <<>>
    ELSE <<[selector |-> formatSelector(typedSelector), error |-> first]>>
         \o (IF /\ Includes(first, "strict mode violation")
                /\ typedSelector.type = "locator"
                /\ el.parentClass
                /\ ~IncludesParentClass(typedSelector.value)
                /\ retry # "ok"
             THEN <<[selector |-> formatSelector(RefinedSelector(typedSelector)),
                     error |-> retry]>>
             ELSE <<>>)

\* if (mutations.length > 10) return []
MutationNoiseLimit == 10

\* how many visible additions the observer has recorded when the list is read
ObservedCounts == {0, MutationNoiseLimit, MutationNoiseLimit + 1}

\* a mutation list, reduced to its length
filterRelevantMutations(observed) ==
    IF observed > MutationNoiseLimit THEN 0 ELSE observed

\* result.mutations: left unset, or the filtered list
NoMutations == [present |-> FALSE, length |-> 0]
Mutations(length) == [present |-> TRUE, length |-> length]

\* command.action === HOVER || command.action === FOCUS
ObservesMutations(cmd) == cmd.action \in {"hover", "focus"}

CoordinateActions == {"click", "doubleClick", "rightClick", "fill", "type", "hover"}

\* `mouse` is what the driver does with the pointer operation
executeCoordinateAction(cmd, mouse) ==
    IF cmd.action \in CoordinateActions /\ mouse = "ok"
    THEN SuccessResult(<<>>, PlainText("page.mouse"))
    ELSE LET message == IF cmd.action \in CoordinateActions THEN mouse
                        ELSE "Coordinate fallback not supported for action"
         IN  FailureResult(<<FailedAttempt(PlainText("coordinate-based"), message)>>,
                           "Coordinate fallback failed: " \o message)

\* index.ts: the result the per-command timer resolves with
createTimeoutFailure(cmd, message) ==
    FailureResult(<<FailedAttempt(PlainText(cmd.action), message)>>, message)

ExecRunning == xpc \in {"start", "somId", "semantic", "coordinate"}

ExecSettled == xpc \in {"returned", "timedOut", "rejected", "thrown"}

\* where runCommand goes once the selector at position `next` is due
AfterSelector(next) ==
    IF ~useSomIdBasedCommands /\
       next <= Min(Len(generateSemanticSelectors(element)), maxAttempts)
    THEN "semantic"
    ELSE "coordinate"

(***************************************************************************)
(* runCommand up to the first selector: the page test, navigation actions, *)
(* percentage-coordinate commands, the somMap lookup, resolveSomTarget.    *)
(***************************************************************************)
RunCommandStart ==
    /\ xpc = "start"
    /\ \/ \* page is null or closed: runCommand rejects, executeSomCommand's catch answers
          /\ xpc' = "rejected"
          /\ runResult' = FailureResult(
                 <<FailedAttempt(PlainText(somCommand.action), "page is null or closed")>>,
                 "page is null or closed")
       \/ /\ somCommand.kind \in {"navigation", "percent"}
          /\ \E outcome \in {"ok", TimeoutExceeded} :
                runResult' =
                    IF outcome = "ok" THEN SuccessResult(<<>>, PlainText(somCommand.kind))
                    ELSE FailureResult(<<FailedAttempt(PlainText(somCommand.kind), outcome)>>,
                                       outcome)
          /\ xpc' = "returned"
       \/ /\ somCommand.kind = "untargeted"
          /\ runResult' = FailureResult(<<>>, "Command must have either elementRef or coord")
          /\ xpc' = "returned"
       \/ /\ somCommand.kind = "marker"
          /\ ~element.present
          /\ runResult' = FailureResult(<<>>, "Element not found in map")
          /\ xpc' = "returned"
       \/ \* resolveSomTarget throws SomReannotationRequiredError, which is passed on
          /\ somCommand.kind = "marker"
          /\ element.present
          /\ xpc' = "thrown"
          /\ UNCHANGED runResult
       \/ /\ somCommand.kind = "marker"
          /\ element.present
          /\ xpc' = "somId"
          /\ UNCHANGED runResult
    /\ UNCHANGED <<somCommand, element, useSomIdBasedCommands, failedAttempts, selectorIndex,
                   tried, dispatched, heuristicsRun, resultMutations>>
    /\ UNCHANGED outsideExec

\* const somResult = await this.tryExecuteAction(somIdSelector, modifiedCommand, element)
TrySomId ==
    /\ xpc = "somId"
    /\ \E first \in DriverOutcomes, retry \in DriverOutcomes :
       \E retry2 \in SecondOutcomes(first) :
          LET somResult ==
                tryExecuteAction(somIdSelector, somCommand, element, first, retry, retry2)
          IN
          /\ tried' = tried \o SelectorsFailed(somIdSelector, element, first, retry)
          /\ heuristicsRun' =
                Append(heuristicsRun, HeuristicsRun(somIdSelector, element, first, retry))
          /\ dispatched' = Append(dispatched, [target |-> "somId", outcome |-> first])
          /\ IF somResult.status = "success"
             THEN /\ runResult' = somResult
                  /\ xpc' = "returned"
                  /\ UNCHANGED failedAttempts
             ELSE /\ failedAttempts' = failedAttempts \o somResult.failedAttempts
                  /\ xpc' = AfterSelector(1)
                  /\ UNCHANGED runResult
    /\ UNCHANGED <<somCommand, element, useSomIdBasedCommands, selectorIndex,
                   resultMutations>>
    /\ UNCHANGED outsideExec

\* for (let i = 0; i < Math.min(selectors.length, maxAttempts); i++) { ... }
TrySemantic ==
    /\ xpc = "semantic"
    /\ \E first \in DriverOutcomes, retry \in DriverOutcomes :
       \E retry2 \in SecondOutcomes(first) :
          LET selector == generateSemanticSelectors(element)[selectorIndex]
              result == tryExecuteAction(selector, somCommand, element, first, retry, retry2)
          IN  /\ tried' = tried \o SelectorsFailed(selector, element, first, retry)
              /\ heuristicsRun' =
                    Append(heuristicsRun, HeuristicsRun(selector, element, first, retry))
              /\ dispatched' = Append(dispatched, [target |-> "semantic", outcome |-> first])
              /\ IF result.status = "success"
                 THEN /\ runResult' = result
                      /\ xpc' = "returned"
                      /\ IF ObservesMutations(somCommand)
                         THEN \E observed \in ObservedCounts :
                                resultMutations' =
                                    Mutations(filterRelevantMutations(observed))
                         ELSE UNCHANGED resultMutations
                      /\ UNCHANGED <<failedAttempts, selectorIndex>>
                 ELSE /\ failedAttempts' = failedAttempts \o result.failedAttempts
                      /\ selectorIndex' = selectorIndex + 1
                      /\ xpc' = AfterSelector(selectorIndex + 1)
                      /\ UNCHANGED <<runResult, resultMutations>>
    /\ UNCHANGED <<somCommand, element, useSomIdBasedCommands>>
    /\ UNCHANGED outsideExec

\* const coordResult = await this.executeCoordinateAction(command, element); merge; return
CoordinateFallback ==
    /\ xpc = "coordinate"
    /\ \E mouse \in {"ok", Intercepted} :
          LET coordResult == executeCoordinateAction(somCommand, mouse) IN
          /\ dispatched' = Append(dispatched, [target |-> "coordinate", outcome |-> mouse])
          /\ runResult' =
              IF coordResult.status = "success"
              THEN [coordResult EXCEPT !.failedAttempts = failedAttempts]
              ELSE IF Len(failedAttempts) > 0
              THEN [coordResult EXCEPT
                        !.failedAttempts = failedAttempts \o coordResult.failedAttempts]
              ELSE coordResult
    /\ xpc' = "returned"
    /\ UNCHANGED <<somCommand, element, useSomIdBasedCommands, failedAttempts, selectorIndex,
                   tried, heuristicsRun, resultMutations>>
    /\ UNCHANGED outsideExec

\* index.ts executeSomCommand: the timer wins the race against runCommand
TimerFires ==
    /\ ExecRunning
    /\ runResult' = createTimeoutFailure(somCommand, "Command timed out")
    /\ xpc' = "timedOut"
    /\ UNCHANGED <<somCommand, element, useSomIdBasedCommands, failedAttempts, selectorIndex,
                   tried, dispatched, heuristicsRun, resultMutations>>
    /\ UNCHANGED outsideExec

ExecInit ==
    /\ xpc = "start"
    /\ somCommand \in ExecCommands
    /\ element \in SomElements
    /\ useSomIdBasedCommands \in BOOLEAN
    /\ failedAttempts = <<>>
    /\ selectorIndex = 1
    /\ tried = <<>>
    /\ dispatched = <<>>
    /\ heuristicsRun = <<>>
    /\ resultMutations = NoMutations
    /\ runResult = NoRunResult

\* no command is being executed
ExecIdle ==
    /\ xpc = "idle"
    /\ somCommand = [kind |-> "untargeted", action |-> "click"]
    /\ element = NoElement
    /\ useSomIdBasedCommands = FALSE
    /\ failedAttempts = <<>>
    /\ selectorIndex = 1
    /\ tried = <<>>
    /\ dispatched = <<>>
    /\ heuristicsRun = <<>>
    /\ resultMutations = NoMutations
    /\ runResult = NoRunResult

(***************************************************************************)
(* The Target Reconciler: PageSoMHandler.resolveSomTarget.                 *)
(*                                                                         *)
(* A descriptor or a live node is reduced to what the scoring reads: tag,  *)
(* className and text as token sequences (" " is white space), ariaLabel,  *)
(* and the width and height of the bounding box.                           *)
(***************************************************************************)
NoText == <<>>
SaveText == <<"Save">>
SaveAllText == <<"Save", " ", "all">>

\* the descriptors updateSom stored for the marker id (expected.tag is never empty)
ExpectedDescriptors ==
    [tag : {"button"},
     className : {NoText, <<"c1", " ", "c2">>},
     text : {NoText, SaveText, SaveAllText},
     ariaLabel : {NoText, SaveText},
     width : {0, 11, 13, 40},
     height : {10}]

\* what page.evaluate reports of a node carrying the marker id
LiveNodes ==
    [tag : {"button", "a"},
     className : {NoText, <<"c1">>, <<"c2", " ", "c1">>},
     text : {NoText, <<" ", "Save", " ", "all", " ">>},
     ariaLabel : {NoText, SaveText},
     width : {10},
     height : {10}]

\* new Set(className.split(/\s+/).map((token) => token.trim()).filter(Boolean))
ClassTokens(className) == {className[i] : i \in DOMAIN className} \ {" "}

\* candidateText.includes(expectedText)
TextIncludes(text, part) ==
    \E i \in 0..Len(text) :
        /\ i + Len(part) <= Len(text)
        /\ SubSeq(text, i + 1, i + Len(part)) = part

Abs(n) == IF n < 0 THEN -n ELSE n

\* the score of one candidate against the stored descriptor
CandidateScore(candidate, descriptor) ==
    LET expectedTag == descriptor.tag
        expectedText == Trim(descriptor.text)
        expectedAria == Trim(descriptor.ariaLabel)
        expectedClassTokens == ClassTokens(descriptor.className)
        candidateClassTokens == ClassTokens(candidate.className)
        candidateText == Trim(candidate.text)
        candidateAria == Trim(candidate.ariaLabel)
        widthDiff == Abs(candidate.width - descriptor.width)
        heightDiff == Abs(candidate.height - descriptor.height)
    IN  (IF candidate.tag = expectedTag /\ expectedTag # "" THEN 5 ELSE 0)
        + (IF expectedClassTokens = {} THEN 0
           ELSE IF expectedClassTokens \subseteq candidateClassTokens THEN 5
           ELSE IF expectedClassTokens \cap candidateClassTokens # {} THEN 3
           ELSE 0)
        + (IF expectedText = NoText THEN 0
           ELSE IF candidateText = expectedText THEN 4
           ELSE IF TextIncludes(candidateText, expectedText) THEN 2
           ELSE 0)
        + (IF expectedAria # NoText /\ candidateAria = expectedAria THEN 2 ELSE 0)
        + (IF descriptor.width = 0 \/ descriptor.height = 0 THEN 0
           ELSE IF widthDiff < 2 /\ heightDiff < 2 THEN 2
           ELSE IF widthDiff < 6 /\ heightDiff < 6 THEN 1
           ELSE 0)

\* for (const candidate of scored) { if (better than best) best = candidate }, from position n;
\* positions are the discovery indexes plus one
RECURSIVE BestFrom_LastWins(_, _, _)
BestFrom_LastWins(scores, n, best) ==
    IF n > Len(scores) THEN best
    ELSE BestFrom_LastWins(scores, n + 1, IF scores[n] >= scores[best] THEN n ELSE best)

RECURSIVE BestFrom(_, _, _)
BestFrom(scores, n, best) ==
    IF n > Len(scores) THEN best
    ELSE BestFrom(scores, n + 1,
                  IF scores[n] > scores[best] \/ (scores[n] = scores[best] /\ n < best)
                  THEN n ELSE best)

Resolved(index, duplicateCount) ==
    [kind |-> "index", index |-> index, duplicateCount |-> duplicateCount]
ReannotationRequired(duplicateCount) ==
    [kind |-> "SomReannotationRequiredError", index |-> 0, duplicateCount |-> duplicateCount]
NoResolution == [kind |-> "none", index |-> 0, duplicateCount |-> 0]

resolveSomTarget(nodes, descriptor) ==
    IF Len(nodes) <= 1 THEN Resolved(0, Len(nodes))
    ELSE LET scores == [i \in DOMAIN nodes |-> CandidateScore(nodes[i], descriptor)]
             best == BestFrom(scores, 1, 1)
         IN  IF scores[best] <= 0 THEN ReannotationRequired(Len(nodes))
             ELSE Resolved(best - 1, Len(nodes))

\* typedSelector.nth: a number, or undefined
NoNth == [given |-> FALSE, n |-> 0]
Nth(n) == [given |-> TRUE, n |-> n]

\* nth: duplicateResolution.index > 0 ? duplicateResolution.index : undefined
somIdSelectorNth(resolution) ==
    IF resolution.index > 0 THEN Nth(resolution.index) ELSE NoNth

\* buildLocatorFromTypedSelector: the discovery indexes of the nodes the locator of the
\* raw marker selector stands for, among `count` nodes carrying the id
LocatorNodes(nth, count) ==
    IF nth.given /\ nth.n >= 0
    THEN {nth.n} \cap (0..(count - 1))
    ELSE 0..(count - 1)

\* the page gains one more node carrying the marker id (a clone, a re-render)
DuplicateAppears ==
    /\ rpc = "page"
    /\ Len(rDuplicates) < MaxDuplicates
    /\ \E node \in LiveNodes : rDuplicates' = Append(rDuplicates, node)
    /\ UNCHANGED <<rpc, rExpected, rResolution>>
    /\ UNCHANGED outsideResolve

\* const duplicateResolution = await this.resolveSomTarget(command.elementRef, element)
ResolveTarget ==
    /\ rpc = "page"
    /\ rResolution' = resolveSomTarget(rDuplicates, rExpected)
    /\ rpc' = IF rResolution'.kind = "index" THEN "resolved" ELSE "thrown"
    /\ UNCHANGED <<rExpected, rDuplicates>>
    /\ UNCHANGED outsideResolve

ResolveInit ==
    /\ rpc = "page"
    /\ rExpected \in ExpectedDescriptors
    /\ rDuplicates = <<>>
    /\ rResolution = NoResolution

\* no marker is being reconciled
ResolveIdle ==
    /\ rpc = "idle"
    /\ rExpected = [tag |-> "button", className |-> NoText, text |-> NoText,
                    ariaLabel |-> NoText, width |-> 0, height |-> 10]
    /\ rDuplicates = <<>>
    /\ rResolution = NoResolution

(***************************************************************************)
(* executePercentageCoordinateAction: percentage of the viewport to pixels.*)
(* A number is an exact fraction [num, den] with den > 0.                  *)
(***************************************************************************)
Fraction(num, den) == [num |-> num, den |-> den]

\* command.coord.x and .y: percentages, given in tenths of a percent
PercentValues == {Fraction(n, 10) : n \in {0, 5, 125, 333, 500, 995, 1000}}

\* this.page.viewportSize()
ViewportSizes == [width : {1, 3, 320, 1280}, height : {1, 200, 720}]

\* Math.round of a fraction that is not negative: halves go up
MathRound(q) == (2 * q.num + q.den) \div (2 * q.den)

PercentToPixel_AsFraction(percent, size) == MathRound(Fraction(percent.num * size, percent.den))

\* Math.round((percent / 100) * size)
PercentToPixel(percent, size) == MathRound(Fraction(percent.num * size, 100 * percent.den))

NoPixels == [x |-> -1, y |-> -1]

\* the window is resized before the command runs
ViewportResized ==
    /\ ppc = "ready"
    /\ \E size \in ViewportSizes : size # viewport /\ viewport' = size
    /\ UNCHANGED <<ppc, coord, pixels>>
    /\ UNCHANGED outsideCoord

\* const pixelX = Math.round(...); const pixelY = Math.round(...); dispatch at the pixel
PercentToPixels ==
    /\ ppc = "ready"
    /\ pixels' = [x |-> PercentToPixel(coord.x, viewport.width),
                  y |-> PercentToPixel(coord.y, viewport.height)]
    /\ ppc' = "dispatched"
    /\ UNCHANGED <<coord, viewport>>
    /\ UNCHANGED outsideCoord

CoordInit ==
    /\ ppc = "ready"
    /\ coord \in [x : PercentValues, y : PercentValues]
    /\ viewport = [width |-> 1280, height |-> 720]
    /\ pixels = NoPixels

\* no percentage-coordinate command is being executed
CoordIdle ==
    /\ ppc = "idle"
    /\ coord = [x |-> Fraction(0, 10), y |-> Fraction(0, 10)]
    /\ viewport = [width |-> 1, height |-> 1]
    /\ pixels = NoPixels

(***************************************************************************)
(* waitFor commands: clampWaitDuration and the timed pause of act().       *)
(*                                                                         *)
(* A duration is kept in milliseconds: `millis` is seconds * 1000.         *)
(***************************************************************************)
MIN_WAIT_FOR_DURATION_MS == 5000
MAX_WAIT_FOR_DURATION_MS == 30000

Absent == [kind |-> "undefined", millis |-> 0]
Null == [kind |-> "null", millis |-> 0]
NotANumber == [kind |-> "NaN", millis |-> 0]
Unbounded == [kind |-> "Infinity", millis |-> 0]
Seconds(millis) == [kind |-> "finite", millis |-> millis]

\* command.durationSeconds as the oracle's JSON gives it: left out, null, or a number
\* (given in tenths of a second)
DurationSecondsValues ==
    {Absent, Null} \cup {Seconds(100 * t) : t \in {-10, 0, 49, 50, 51, 299, 300, 301}}

\* command.value: left out, or a text
WaitValues == {[given |-> FALSE, text |-> StrEmpty]}
              \cup {[given |-> TRUE, text |-> s] : s \in SampleStrings}

RECURSIVE Pow10(_)
Pow10(n) == IF n = 0 THEN 1 ELSE 10 * Pow10(n - 1)

\* Number(command.value), to the millisecond
NumberOfValue(text) ==
    LET parsed == Number(text) IN
    CASE parsed.kind = "NaN" -> NotANumber
      [] parsed.kind = "Infinity" -> Unbounded
      [] OTHER -> Seconds(parsed.whole * 1000
                          + (DigitsValue(parsed.frac) * 1000) \div Pow10(Len(parsed.frac)))

\* command.durationSeconds ?? (command.value ? Number(command.value) : undefined)
WaitSeconds(cmd) ==
    IF cmd.durationSeconds.kind \notin {"undefined", "null"} THEN cmd.durationSeconds
    ELSE IF cmd.value.given /\ cmd.value.text # StrEmpty THEN NumberOfValue(cmd.value.text)
    ELSE Absent

\* Math.max and Math.min with one finite argument: NaN stays NaN
MathMax(a, bound) ==
    CASE a.kind = "NaN" -> NotANumber
      [] a.kind = "Infinity" -> Unbounded
      [] OTHER -> Seconds(Max(a.millis, bound))

MathMin(a, bound) ==
    CASE a.kind = "NaN" -> NotANumber
      [] a.kind = "Infinity" -> Seconds(bound)
      [] OTHER -> Seconds(Min(a.millis, bound))

\* const ms = seconds != null ? seconds * 1000 : MIN; return Math.min(Math.max(ms, MIN), MAX)
clampWaitDuration(seconds) ==
    LET ms == IF seconds.kind \in {"undefined", "null"}
              THEN Seconds(MIN_WAIT_FOR_DURATION_MS)
              ELSE seconds
    IN  MathMin(MathMax(ms, MIN_WAIT_FOR_DURATION_MS), MAX_WAIT_FOR_DURATION_MS)

NoPause == [kind |-> "none", millis |-> 0]

\* await context.page.waitForTimeout(durationMs), as a pre-command or as a main command
WaitForPause ==
    /\ wpc = "command"
    /\ durationMs' = clampWaitDuration(WaitSeconds(waitForCommand))
    /\ wpc' = "paused"
    /\ UNCHANGED waitForCommand
    /\ UNCHANGED outsideWait

WaitInit ==
    /\ wpc = "command"
    /\ waitForCommand \in [durationSeconds : DurationSecondsValues, value : WaitValues]
    /\ durationMs = NoPause

\* no waitFor command is looked at
WaitIdle ==
    /\ wpc = "idle"
    /\ waitForCommand = [durationSeconds |-> Absent, value |-> [given |-> FALSE, text |-> StrEmpty]]
    /\ durationMs = NoPause

ActInit ==
    /\ pc = "stabilize"
    /\ waitRetryLimit \in {getMaxWaitRetries(raw) : raw \in EnvValues}
    /\ waitCount = 0
    /\ preActionRetryCount = 0
    /\ aggregateResults = <<>>
    /\ rawReply = NoReply
    /\ aiResult = NoReply
    /\ preLeft = <<>>
    /\ waitLeft = <<>>
    /\ actLeft = <<>>
    /\ lastResult = NoResult
    /\ thrown = NoError
    /\ orphans = 0
    /\ roundExecuted = 0
    /\ waitRun = 0
    /\ navSeen = FALSE
    /\ waitsHonoured = 0
    /\ retriesHonoured = 0
    /\ roundTrace = <<>>

ActStep ==
    \/ Stabilize
    \/ QueryOracle
    \/ HandleReply
    \/ RunPreCommand
    \/ AfterPreCommands
    \/ HandleMain
    \/ RunWaitCommand
    \/ ExecCommand
    \/ PostCommand
    \/ Finish

Init ==
    ActInit /\ VerifyIdle /\ SomIdle /\ ClientIdle /\ ExtractIdle /\ ExecIdle /\ ResolveIdle /\ CoordIdle
    /\ WaitIdle

Next ==
    \/ Stabilize
    \/ QueryOracle
    \/ HandleReply
    \/ RunPreCommand
    \/ AfterPreCommands
    \/ HandleMain
    \/ RunWaitCommand
    \/ ExecCommand
    \/ PostCommand
    \/ Finish
    \/ OrphanSettles

Spec == Init /\ [][Next]_vars

\* the event loop keeps running act() while it has a step to take
FairSpec == Init /\ [][Next]_vars /\ WF_vars(ActStep)

VerifyNext ==
    \/ VerifyStabilize
    \/ VerifyQuery
    \/ VerifyHandleReply

InitVerify ==
    VerifyInit /\ ActIdle /\ SomIdle /\ ClientIdle /\ ExtractIdle /\ ExecIdle /\ ResolveIdle /\ CoordIdle
    /\ WaitIdle

SpecVerify == InitVerify /\ [][VerifyNext]_vars

SomNext ==
    \/ UpdateSom
    \/ DomChange
    \/ ClosePage

InitSom ==
    SomInit /\ ActIdle /\ VerifyIdle /\ ClientIdle /\ ExtractIdle /\ ExecIdle /\ ResolveIdle /\ CoordIdle
    /\ WaitIdle

SpecSom == InitSom /\ [][SomNext]_vars

ClientNext ==
    \/ CallProvider
    \/ Backoff
    \/ ParseAndValidate

InitClient ==
    ClientInit /\ ActIdle /\ VerifyIdle /\ SomIdle /\ ExtractIdle /\ ExecIdle /\ ResolveIdle /\ CoordIdle
    /\ WaitIdle

SpecClient == InitClient /\ [][ClientNext]_vars

ExtractNext ==
    \/ ExtractQuery
    \/ ExtractCompute

InitExtract ==
    ExtractInit /\ ActIdle /\ VerifyIdle /\ SomIdle /\ ClientIdle /\ ExecIdle /\ ResolveIdle /\ CoordIdle
    /\ WaitIdle

SpecExtract == InitExtract /\ [][ExtractNext]_vars

ExecNext ==
    \/ RunCommandStart
    \/ TrySomId
    \/ TrySemantic
    \/ CoordinateFallback
    \/ TimerFires

InitExec ==
    ExecInit /\ ActIdle /\ VerifyIdle /\ SomIdle /\ ClientIdle /\ ExtractIdle /\ ResolveIdle /\ CoordIdle
    /\ WaitIdle

SpecExec == InitExec /\ [][ExecNext]_vars

ResolveNext ==
    \/ DuplicateAppears
    \/ ResolveTarget

InitResolve ==
    ResolveInit /\ ActIdle /\ VerifyIdle /\ SomIdle /\ ClientIdle /\ ExtractIdle /\ ExecIdle
    /\ CoordIdle /\ WaitIdle

SpecResolve == InitResolve /\ [][ResolveNext]_vars

CoordNext ==
    \/ ViewportResized
    \/ PercentToPixels

InitCoord ==
    CoordInit /\ ActIdle /\ VerifyIdle /\ SomIdle /\ ClientIdle /\ ExtractIdle /\ ExecIdle
    /\ ResolveIdle /\ WaitIdle

SpecCoord == InitCoord /\ [][CoordNext]_vars

WaitNext == WaitForPause

InitWait ==
    WaitInit /\ ActIdle /\ VerifyIdle /\ SomIdle /\ ClientIdle /\ ExtractIdle /\ ExecIdle
    /\ ResolveIdle /\ CoordIdle

SpecWait == InitWait /\ [][WaitNext]_vars

(***************************************************************************)
(* Claims about act().                                                     *)
(***************************************************************************)

\* C1: every act() call ends: whatever the oracle replies and the driver
\* does, act() makes a bounded number of oracle queries and then returns or
\* throws.  (Refuted by a cycle of the loop through an unchanged state.)
C1_ActTerminates == <>Terminated

\* the oracle has answered every query so far with shouldWait = true
AllWaitSoFar == waitRun >= 0

\* C2 as stated: with every reply shouldWait = true, act() throws on the
\* (L+1)-th wait request, its message quoting L, and queries no further.
C2_ThrowsOnWaitLPlus1 ==
    AllWaitSoFar =>
        /\ waitRun <= waitRetryLimit + 1
        /\ (pc = "thrown" /\ thrown.kind = "waitLimit") =>
               /\ waitRun = waitRetryLimit + 1
               /\ thrown.limit = waitRetryLimit
        /\ pc = "thrown" => ~ENABLED ActStep

\* C2 amended: with every reply shouldWait = true, act() throws no later than
\* on the (L+1)-th wait request, and on exactly the (L+1)-th when no
\* navigation interruption hit stabilization (each interruption uses up one
\* unit of the same wait counter); the message quotes L and no query follows.
C2_ThrowsByWaitLPlus1 ==
    AllWaitSoFar =>
        /\ waitRun <= waitRetryLimit + 1
        /\ (pc \in {"stabilize", "query"} /\ ~navSeen) => waitCount = waitRun
        /\ (pc = "thrown" /\ thrown.kind = "waitLimit") =>
               /\ waitRun <= waitRetryLimit + 1
               /\ ~navSeen => waitRun = waitRetryLimit + 1
               /\ thrown.limit = waitRetryLimit
        /\ pc = "thrown" => ~ENABLED ActStep

C2_Witness ==
    /\ AllWaitSoFar
    /\ pc = "thrown"
    /\ thrown = LimitError("waitLimit", DEFAULT_WAIT_RETRY_LIMIT)
    /\ waitRun = DEFAULT_WAIT_RETRY_LIMIT + 1
    /\ ~navSeen

\* the oracle's reply asks for a SoM refresh and neither waits nor completes
RefreshAsked ==
    /\ Flag(rawReply, "requestSomRefresh")
    /\ ~Flag(rawReply, "shouldWait")
    /\ ~Flag(rawReply, "stepCompleted")

\* C4: on a reply with requestSomRefresh = true (and neither shouldWait nor
\* stepCompleted), as it arrives through the oracle client, the next step of
\* act() is the refresh and the loop back to stabilization and a new query;
\* none of the reply's commands is executed.
C4_RefreshIgnoresCommands ==
    [][(pc = "reply" /\ RefreshAsked /\ pc' # pc)
          => (pc' = "stabilize" /\ roundExecuted' = 0)]_vars

\* a step of act() that issues driver operations on the page
IssuesDriverOperation ==
    \/ Stabilize
    \/ RunPreCommand
    \/ AfterPreCommands
    \/ RunWaitCommand
    \/ ExecCommand
    \/ PostCommand

\* C5: no two driver operations are in flight at once: when act() issues its
\* next driver operation, no runCommand call of a timed-out command is still
\* running.
C5_NoConcurrentDriverOperations ==
    [][IssuesDriverOperation => orphans = 0]_vars

\* C6: on a reply with stepCompleted = true (and no shouldWait, which the
\* code tests first) the next step of act() returns success with the result
\* list as it was and without executing any command of that reply.
C6_StepCompletedReturns ==
    [][(pc = "reply" /\ Flag(rawReply, "stepCompleted") /\ ~Flag(rawReply, "shouldWait")
          /\ pc' # pc)
          => /\ pc' = "done"
             /\ thrown' = NoError
             /\ aggregateResults' = aggregateResults
             /\ roundExecuted' = 0]_vars

C6_Witness ==
    /\ pc = "done"
    /\ Flag(rawReply, "stepCompleted")
    /\ rawReply.commandsToRun # <<>>
    /\ aggregateResults # <<>>
    /\ roundExecuted = 0

\* C7: a duplicate/stale-marker mismatch or a navigation interruption hit
\* while executing a command (pre-command or main command) never makes
\* act() throw: the error is recovered by retrying the round.
C7_MismatchRecoveredLocally ==
    pc = "thrown" =>
        thrown.kind \notin {"SomReannotationRequiredError", "NavigationInProgressError"}


(***************************************************************************)
(* Claims about verify().                                                  *)
(***************************************************************************)
VerifyFailedAssertion == \E i \in DOMAIN vAsserts : ~vAsserts[i].pass

\* C3 (as stated): for a reply that does not signal stepCompleted, verify()
\* completes without an assertion failure only if verificationSuccess is true
\* and confidence >= threshold.
C3_VerifyEnforcesThreshold ==
    (/\ vpc = "returned"
     /\ ~Flag(vResult, "stepCompleted")
     /\ ~VerifyFailedAssertion)
    => /\ vResult["verificationSuccess"] = TRUE
       /\ vResult["confidence"] >= Threshold(vOptions)

(***************************************************************************)
(* Claims about the annotator.                                             *)
(***************************************************************************)
MarkedInPass(n) == \E i \in DOMAIN elements : elements[i].node = n

\* C8 (as stated): immediately after a completed pass every node that carries
\* the marker attribute was marked in that pass, and each marker id is carried
\* by exactly one node.
C8_PassClearsPreviousIds ==
    passFresh =>
        /\ \A n \in Nodes : attr[n].set => MarkedInPass(n)
        /\ \A id \in DOMAIN somMap :
              Cardinality({n \in Nodes : attr[n].set /\ attr[n].id = id}) = 1

\* C9: after a pass that marked n elements the marker map holds exactly the
\* ids 1..n, the i-th element discovered carries id i, discovery order is
\* document order, and the pass returned n.
C9_IdsAreOneToN ==
    passFresh =>
        /\ lastCount = Len(elements)
        /\ DOMAIN somMap = 1..lastCount
        /\ \A i \in DOMAIN elements :
              /\ elements[i].somId = i
              /\ somMap[i] = elements[i]
              /\ attr[elements[i].node] = [set |-> TRUE, id |-> i]
        /\ \A i, j \in DOMAIN elements :
              i < j => elements[i].node < elements[j].node

\* a pass that skipped its first candidate and marked a later one
C9_Witness ==
    /\ passFresh
    /\ lastCount >= 1
    /\ elements[1].node > 1

PassesOtherFilters(node, args) ==
    /\ ~node.hidden
    /\ node.disabled => args.includeDisabled

\* C10 (as stated): whatever the arguments of the pass, a viewport-resident
\* candidate covered at all five test points gets no marker, and a
\* viewport-resident candidate that passes the other filters and has a
\* visible test point gets one.
C10_OcclusionInvariant ==
    passFresh =>
        \A n \in Nodes :
            /\ (dom[n].inViewport /\ visiblePoints(dom[n]) = 0) => ~MarkedInPass(n)
            /\ (/\ dom[n].inViewport
                /\ visiblePoints(dom[n]) >= 1
                /\ PassesOtherFilters(dom[n], lastArgs)) => MarkedInPass(n)

(***************************************************************************)
(* More claims about act().                                                *)
(***************************************************************************)
\* C11: within one act() call the number of shouldWait replies honoured by
\* looping to another oracle query never exceeds the configured limit,
\* whatever replies come in between.
C11_HonouredWaitsWithinLimit == waitsHonoured <= waitRetryLimit

(***************************************************************************)
(* Claims about the oracle client.                                         *)
(***************************************************************************)
\* the type the AiActionResult interface gives each member
ExpectedType(f) ==
    CASE f \in {"preCommands", "commandsToRun"} -> "commands"
      [] f \in {"verificationSuccess", "shouldWait", "needsRetryAfterPreActions",
                "requestSomRefresh", "stepCompleted"} -> "boolean"
      [] f \in {"extractedContent", "waitReason", "somRefreshReason",
                "verificationReason"} -> "string"
      [] f = "extractedContentList" -> "strings"
      [] f = "confidence" -> "confidence"

WellTyped(f, v) ==
    CASE ExpectedType(f) = "commands" -> IsCommandArray(v)
      [] ExpectedType(f) = "boolean" -> v.t = "boolean"
      [] ExpectedType(f) = "string" -> v.t = "string"
      [] ExpectedType(f) = "strings" -> IsStringArray(v)
      [] ExpectedType(f) = "confidence" -> v.t = "number" /\ v.n >= 0 /\ v.n <= 100

\* C12 (as stated): the oracle call returns only when every defined field
\* present in the reply has its type (confidence within 0..100); a reply
\* with a defined field of the wrong type makes the call throw.
C12_WrongTypeIsFatal ==
    cpc = "returned" =>
        \A f \in DefinedFields \cap DOMAIN payload.fields :
            WellTyped(f, payload.fields[f])

IsPrefix(s, t) == Len(s) <= Len(t) /\ \A i \in DOMAIN s : s[i] = t[i]

ProviderFailures == {"empty", "http400", "http500", "network", "falsy"}

\* C13 (as stated): one oracle call invokes the provider at most 3 times,
\* waiting 250 ms and then twice the previous delay between attempts.
C13_AtMostThreeAttempts ==
    /\ attempts <= 3
    /\ IsPrefix(delays, <<250, 500>>)

\* C13 (amended): one oracle call invokes the provider at most 4 times (the
\* first attempt and 3 retries), waits 250, 500 and 1000 ms before the
\* retries, retries only while the failure is retryable, and rejects with the
\* failure of the last attempt made.
C13_AtMostThreeRetries ==
    /\ attempts <= DEFAULT_RETRIES + 1
    /\ IsPrefix(delays, <<250, 500, 1000>>)
    /\ cpc \in {"call", "backoff"} => retries = DEFAULT_RETRIES - Len(delays)
    /\ cpc = "call" => attempts = Len(delays)
    /\ cpc \in {"backoff", "parse", "returned", "thrown"} => attempts = Len(delays) + 1
    /\ (cpc = "thrown" /\ cError.kind \in ProviderFailures) =>
          \/ ~isRetryableError(cError.kind)
          \/ attempts = DEFAULT_RETRIES + 1

\* every attempt failed with a retryable error
C13_Witness ==
    /\ cpc = "thrown"
    /\ cError = ClientError("network")
    /\ attempts = 4
    /\ delays = <<250, 500, 1000>>

(***************************************************************************)
(* More claims about verify().                                             *)
(***************************************************************************)
\* verify() has dealt with the reply {verificationSuccess:false, confidence:40}
\* under the default threshold, with an assertion function at hand
FailedLowConfidenceCase ==
    /\ vpc \in {"returned", "assertFailed"}
    /\ vResult = [verificationSuccess |-> FALSE, confidence |-> 40]
    /\ ~vOptions.given
    /\ vExpect # "missing"

ConfidenceAssertionFailed(a) ==
    a = Assertion("confidence", 40, DEFAULT_CONFIDENCE_THRESHOLD, FALSE)

SuccessAssertionFailed(a) == a = Assertion("verificationSuccess", 0, 1, FALSE)

\* C14 (as stated): on {verificationSuccess:false, confidence:40} with
\* threshold 70 both assertions are evaluated and fail, the confidence
\* failure cites 40 and 70, and verify() does not return a result.
C14_BothAssertionsFail ==
    FailedLowConfidenceCase =>
        /\ Len(vAsserts) = 2
        /\ ConfidenceAssertionFailed(vAsserts[1])
        /\ SuccessAssertionFailed(vAsserts[2])
        /\ vpc # "returned"

\* C14 (amended): the confidence assertion is evaluated first and fails,
\* citing 40 and 70.  With an assertion function that throws, verify() ends
\* there without a result and the success assertion is not evaluated; with a
\* soft one both assertions are evaluated and fail, and verify() returns.
C14_ConfidenceAssertionFailsFirst ==
    FailedLowConfidenceCase =>
        /\ Len(vAsserts) >= 1
        /\ ConfidenceAssertionFailed(vAsserts[1])
        /\ vExpect = "hard" => (vpc = "assertFailed" /\ Len(vAsserts) = 1)
        /\ vExpect = "soft" =>
              /\ vpc = "returned"
              /\ Len(vAsserts) = 2
              /\ SuccessAssertionFailed(vAsserts[2])

C14_Witness ==
    /\ FailedLowConfidenceCase
    /\ vExpect = "hard"
    /\ vpc = "assertFailed"

\* the oracle signalled completion instead of supplying the two verdict fields
CompletionOnlyReply ==
    /\ Flag(vRaw, "stepCompleted")
    /\ ~Flag(vRaw, "requestSomRefresh")
    /\ "verificationSuccess" \notin DOMAIN vRaw
    /\ "confidence" \notin DOMAIN vRaw

\* C15 (as stated): on a reply that signals stepCompleted = true instead of
\* supplying verificationSuccess and confidence, verify() returns without
\* throwing and without evaluating an assertion.
C15_CompletionShortCircuits ==
    (CompletionOnlyReply /\ vpc \in {"returned", "thrown", "assertFailed"}) =>
        /\ vpc = "returned"
        /\ vAsserts = <<>>

\* C16 (as stated): a reply to verify() with requestSomRefresh = true makes
\* verify() run the whole round trip again (once).
C16_RefreshRetriesRoundTrip ==
    [][(vpc = "reply" /\ Flag(vRaw, "requestSomRefresh") /\ vpc' # vpc)
          => vpc' = "stabilize"]_vars

(***************************************************************************)
(* Claims about extract().                                                 *)
(***************************************************************************)
\* numeric text: apart from surrounding white space, decimal digits with at
\* most one decimal point and at least one digit
IsNumericText(s) ==
    LET t == Trim(s) IN
    /\ t # <<>>
    /\ \A i \in DOMAIN t : t[i] \in Digits \cup {"."}
    /\ Cardinality({i \in DOMAIN t : t[i] = "."}) <= 1
    /\ \E i \in DOMAIN t : t[i] \in Digits

IsInteger(v) == v.kind = "finite" /\ \A i \in DOMAIN v.frac : v.frac[i] = "0"

\* extract() was asked for an int_array and the reply carries a list to convert
IntArrayCase ==
    /\ epc \in {"returned", "thrown"}
    /\ eOptions = "int_array"
    /\ "extractedContentList" \in DOMAIN eReply
    /\ eReply["extractedContentList"] # <<>>

\* C17 (as stated): with return_type int_array extract() returns the numeric
\* values of extractedContentList element by element in the same order, and
\* throws, returning nothing, whenever one of the strings is not numeric text.
C17_IntArrayCoercion ==
    IntArrayCase =>
        LET list == eReply["extractedContentList"] IN
        IF \A i \in DOMAIN list : IsNumericText(list[i])
        THEN /\ epc = "returned"
             /\ eOut.kind = "numbers"
             /\ Len(eOut.value) = Len(list)
             /\ \A i \in DOMAIN list : eOut.value[i] = Number(list[i])
        ELSE /\ epc = "thrown"
             /\ eOut = Threw("notNumeric")

\* C18 (as stated): whenever extract() returns, the value has the shape the
\* return type names: one string for 'string' (the default), a list of
\* strings for 'string_array', one integer for 'int', a list of integers for
\* 'int_array'.
C18_ReturnedShapeMatchesType ==
    epc = "returned" =>
        CASE eOptions \in {"unset", "string"} -> eOut.kind = "string"
          [] eOptions = "string_array" -> eOut.kind = "strings"
          [] eOptions = "int" -> eOut.kind = "number" /\ IsInteger(eOut.value)
          [] eOptions = "int_array" ->
                /\ eOut.kind = "numbers"
                /\ \A i \in DOMAIN eOut.value : IsInteger(eOut.value[i])

(***************************************************************************)
(* Claims about the Action Executor.                                       *)
(***************************************************************************)
RawSelectorDesc == formatSelector(somIdSelector)

\* the raw marker-attribute selector threw "strict mode violation" on an element
\* whose descriptor has no parent class
StrictNoParentCase ==
    /\ Len(tried) >= 1
    /\ tried[1] = [selector |-> RawSelectorDesc, error |-> StrictMode]
    /\ ~element.parentClass

\* the entries of a failed-attempt list that quote the raw selector
RawEntries(list) == {i \in DOMAIN list : list[i].command.selector = RawSelectorDesc}

\* C19 as stated: when the raw marker-attribute selector throws "strict mode
\* violation" and the element has no parent class, runCommand returns a failure
\* result whose failed-attempt list has exactly one entry, carrying that text.
C19_FailureWithOneAttempt ==
    (xpc = "returned" /\ StrictNoParentCase) =>
        /\ runResult.status = "failure"
        /\ Len(runResult.failedAttempts) = 1
        /\ runResult.failedAttempts[1].error = StrictMode

\* C19 amended: in that case the raw selector's attempt leaves exactly one entry in
\* runCommand's list, the first, carrying that text (no parent-scoped retry is made);
\* runCommand then goes on to the semantic selectors and the coordinate fallback, and
\* a failure result it returns lists that entry first and the coordinate fallback's
\* entry last, so it has at least two entries.
C19_RawAttemptIsOneEntry ==
    (StrictNoParentCase /\ xpc \in {"semantic", "coordinate", "returned"}) =>
        /\ Len(failedAttempts) >= 1
        /\ failedAttempts[1].error = StrictMode
        /\ RawEntries(failedAttempts) = {1}
        /\ (xpc = "returned" /\ runResult.status = "failure") =>
              /\ Len(runResult.failedAttempts) >= 2
              /\ runResult.failedAttempts[1] = failedAttempts[1]
              /\ RawEntries(runResult.failedAttempts) = {1}
              /\ runResult.failedAttempts[Len(runResult.failedAttempts)].command
                     = PlainText("coordinate-based")

C19_Witness ==
    /\ xpc = "returned"
    /\ StrictNoParentCase
    /\ runResult.status = "failure"
    /\ Len(runResult.failedAttempts) = 2

\* the (selector, error) pairs of the entries that quote a selector, in list order
RECURSIVE SelectorEntries(_)
SelectorEntries(list) ==
    IF list = <<>> THEN <<>>
    ELSE (IF Head(list).command.selector = NoSelector THEN <<>>
          ELSE <<[selector |-> Head(list).command.selector, error |-> Head(list).error]>>)
         \o SelectorEntries(Tail(list))

\* C20: every failure result produced for a command carries, in the order tried, one
\* failed-attempt entry (selector and error text) for every selector that was tried,
\* together with the terminal error text.
C20_FailureListsEverySelector ==
    (ExecSettled /\ runResult.status = "failure") =>
        /\ SelectorEntries(runResult.failedAttempts) = tried
        /\ runResult.error # Undefined

(***************************************************************************)
(* Claims about the Target Reconciler.                                     *)
(***************************************************************************)
DuplicateScores == [i \in DOMAIN rDuplicates |-> CandidateScore(rDuplicates[i], rExpected)]

MaxScore == CHOOSE m \in {DuplicateScores[i] : i \in DOMAIN rDuplicates} :
                \A i \in DOMAIN rDuplicates : DuplicateScores[i] <= m

\* C21: with more than one live node carrying the marker id, resolveSomTarget returns
\* the lowest discovery index among the candidates of maximum score, and throws
\* SomReannotationRequiredError instead exactly when that maximum is <= 0.
C21_BestCandidateOrReannotate ==
    (rpc \in {"resolved", "thrown"} /\ Len(rDuplicates) > 1) =>
        /\ (rpc = "thrown") <=> (MaxScore <= 0)
        /\ rpc = "thrown" => rResolution.kind = "SomReannotationRequiredError"
        /\ rpc = "resolved" =>
              /\ rResolution.kind = "index"
              /\ rResolution.index + 1 \in DOMAIN rDuplicates
              /\ DuplicateScores[rResolution.index + 1] = MaxScore
              /\ \A i \in DOMAIN rDuplicates :
                    DuplicateScores[i] = MaxScore => rResolution.index + 1 <= i

\* two candidates tie at the maximum and the first of them is returned
C21_Witness ==
    /\ rpc = "resolved"
    /\ Len(rDuplicates) > 1
    /\ DuplicateScores[1] = DuplicateScores[2]
    /\ rResolution.index = 0

\* the candidate agrees with the descriptor on tag, class-token set and text
MatchesExactly(candidate, descriptor) ==
    /\ candidate.tag = descriptor.tag
    /\ ClassTokens(candidate.className) = ClassTokens(descriptor.className)
    /\ Trim(candidate.text) = Trim(descriptor.text)

\* the candidate agrees with the descriptor on tag and on nothing else that is scored
MatchesOnlyTag(candidate, descriptor) ==
    /\ candidate.tag = descriptor.tag
    /\ ClassTokens(candidate.className) # ClassTokens(descriptor.className)
    /\ ClassTokens(candidate.className) \cap ClassTokens(descriptor.className) = {}
    /\ Trim(candidate.text) # Trim(descriptor.text)
    /\ Trim(descriptor.text) # NoText =>
          ~TextIncludes(Trim(candidate.text), Trim(descriptor.text))
    /\ Trim(candidate.ariaLabel) # Trim(descriptor.ariaLabel)
    /\ Abs(candidate.width - descriptor.width) >= 6

\* C22: a candidate matching the descriptor exactly on tag, class-token set and text
\* scores strictly higher than a candidate matching it only on tag.
C22_ExactMatchOutscoresTagOnly ==
    \A i, j \in DOMAIN rDuplicates :
        (MatchesExactly(rDuplicates[i], rExpected) /\ MatchesOnlyTag(rDuplicates[j], rExpected))
            => DuplicateScores[i] > DuplicateScores[j]

(***************************************************************************)
(* More claims about the Action Executor.                                  *)
(***************************************************************************)
\* a click on a marker whose raw marker-attribute selector succeeded on its first
\* dispatch (resolveSomTarget had returned, so the marker resolved)
RawSelectorSucceededCase ==
    /\ somCommand = [kind |-> "marker", action |-> "click"]
    /\ dispatched # <<>>
    /\ dispatched[1] = [target |-> "somId", outcome |-> "ok"]

\* C23: when the raw marker-attribute selector of a click on a uniquely resolved marker
\* succeeds on its first dispatch, runCommand returns status success with one recorded
\* successful attempt and no failed attempt, and neither a semantic selector nor the
\* coordinate fallback is attempted.
C23_RawSelectorSuccess ==
    RawSelectorSucceededCase =>
        /\ xpc = "returned"
        /\ runResult.status = "success"
        /\ runResult.successAttempt # NoSuccessAttempt
        /\ runResult.successAttempt.command.selector = RawSelectorDesc
        /\ runResult.failedAttempts = <<>>
        /\ failedAttempts = <<>>
        /\ Len(dispatched) = 1

C23_Witness ==
    /\ RawSelectorSucceededCase
    /\ xpc = "returned"
    /\ ~useSomIdBasedCommands
    /\ Len(generateSemanticSelectors(element)) > 0

\* C24: for a descriptor flagged hasVisiblePseudoElement, the list selector synthesis
\* produces holds no accessible-role selector and no visible-text selector.
C24_NoRoleOrTextForPseudoElement ==
    element.hasVisiblePseudoElement =>
        \A i \in DOMAIN generateSemanticSelectors(element) :
            generateSemanticSelectors(element)[i].type \notin {"role", "text"}

\* selector synthesis has run for a flagged descriptor that has a role and text
C24_Witness ==
    /\ element.hasVisiblePseudoElement
    /\ element.role
    /\ element.text
    /\ xpc = "semantic"
    /\ Len(generateSemanticSelectors(element)) > 0

(***************************************************************************)
(* Claims about percentage coordinates.                                    *)
(***************************************************************************)
\* the viewport position of pixel p as a percentage of the size: p / size * 100
PixelToPercent(p, size) == Fraction(100 * p, size)

\* |pixel - percent / 100 * size| <= 1, in exact arithmetic
WithinOnePixel(pixel, percent, size) ==
    LET exactNum == percent.num * size
        exactDen == 100 * percent.den
    IN  /\ pixel * exactDen - exactNum <= exactDen
        /\ exactNum - pixel * exactDen <= exactDen

\* C25: the pixel targeted for a percentage coordinate is within 1 px of the exact
\* position (x/100*W, y/100*H) in each axis, and converting that pixel back to a
\* percentage and to pixels again yields the same pixel.
C25_PercentRoundTrip ==
    ppc = "dispatched" =>
        /\ WithinOnePixel(pixels.x, coord.x, viewport.width)
        /\ WithinOnePixel(pixels.y, coord.y, viewport.height)
        /\ PercentToPixel(PixelToPercent(pixels.x, viewport.width), viewport.width) = pixels.x
        /\ PercentToPixel(PixelToPercent(pixels.y, viewport.height), viewport.height) = pixels.y

\* a conversion that had to round: 33.3% of 320 px is 106.56 px
C25_Witness ==
    /\ ppc = "dispatched"
    /\ coord.x = Fraction(333, 10)
    /\ viewport.width = 320
    /\ pixels.x = 107

(***************************************************************************)
(* Claims about failed commands, retried rounds and the counters of act(). *)
(***************************************************************************)
\* the step that follows a command whose result is a failure
AfterFailedCommand ==
    pc = "post" /\ lastResult.status = "failure" /\ pc' # pc

\* failedResult = aggregateResults[aggregateResults.length - 1] is that command's result
ThrowsForFailedCommand ==
    /\ pc' = "thrown"
    /\ thrown' = PlainError("commandFailed")
    /\ aggregateResults' # <<>>
    /\ aggregateResults'[Len(aggregateResults')] = lastResult

RoundRetried ==
    pc \in {"waits", "cmds", "post"} /\ pc' = "stabilize"

\* C27: when a navigation interruption or a duplicate-marker mismatch makes a
\* round be retried, the results recorded before that round stay in the
\* result list: at most the results of the round's own commands are dropped.
C27_EarlierRoundsKept ==
    [][RoundRetried =>
         /\ Len(aggregateResults') >= Len(aggregateResults) - roundExecuted
         /\ aggregateResults' = SubSeq(aggregateResults, 1, Len(aggregateResults'))]_vars

\* a step of the loop that changes both counters
BothCountersChange ==
    waitCount' # waitCount /\ preActionRetryCount' # preActionRetryCount

C29_AtMostLimitRetriesHonoured ==
    retriesHonoured <= waitRetryLimit

\* updateSom(false) follows the pre-commands and every wait and action command,
\* and numbers the markers again from 1: once a command of the reply has run,
\* the marker map is no longer the one the oracle saw
MapRebuiltSinceReply == roundExecuted > 0

\* C30: act() hands a command of an oracle reply to the Action Executor only
\* while the marker map is still the one the oracle saw when it issued the
\* command.
C30_CommandsRunOnTheMapTheOracleSaw ==
    [][(pc = "cmds" /\ actLeft # <<>> /\ pc' # pc) => ~MapRebuiltSinceReply]_vars

(***************************************************************************)
(* Claims about the heuristics and the attempt log of the Action Executor. *)
(***************************************************************************)
\* C31: for every selector attempt at most one recovery heuristic is run, so
\* the action is dispatched at most twice for that selector.
C31_OneHeuristicPerSelector ==
    \A i \in DOMAIN heuristicsRun : Len(heuristicsRun[i]) <= 1

\* C32: every success result of a marker-based command lists, in the order
\* tried, every selector that was tried and failed before the winning attempt,
\* together with the winning attempt.
C32_SuccessListsEverySelector ==
    (xpc = "returned" /\ somCommand.kind = "marker" /\ runResult.status = "success") =>
        /\ runResult.successAttempt # NoSuccessAttempt
        /\ Len(runResult.failedAttempts) = Len(tried)
        /\ \A i \in DOMAIN tried :
              runResult.failedAttempts[i].command.selector = tried[i].selector

\* C33: whenever a marker-based hover or focus command succeeds, by whichever
\* selector or fallback, the result carries the filtered mutation list, which
\* never has more than 10 entries.
C33_HoverSuccessCarriesMutations ==
    (/\ xpc = "returned"
     /\ somCommand.kind = "marker"
     /\ ObservesMutations(somCommand)
     /\ runResult.status = "success") =>
        /\ resultMutations.present
        /\ resultMutations.length <= MutationNoiseLimit

(***************************************************************************)
(* Claims about the raw marker selector under duplicate marker ids.        *)
(***************************************************************************)
\* C34: when several live nodes carry the marker id and the reconciler has
\* chosen candidate i, the locator of the raw marker selector stands for
\* exactly candidate i, for every i including 0.
C34_RawSelectorAddressesChosenCandidate ==
    (rpc = "resolved" /\ Len(rDuplicates) > 1) =>
        LocatorNodes(somIdSelectorNth(rResolution), Len(rDuplicates)) = {rResolution.index}

(***************************************************************************)
(* Claims about the order of the commands within one round of act().       *)
(***************************************************************************)
IsWaitCommand(cmd) == cmd = WAIT_FOR
IsActionCommand(cmd) == cmd # WAIT_FOR

\* what a round runs for a reply: its pre-commands in list order, the marker refresh that
\* follows them, its wait-type main commands, then its action-type main commands
RoundOrder(reply) ==
    LET pres == List(reply, "preCommands")
        main == List(reply, "commandsToRun")
        waits == SelectSeq(main, IsWaitCommand)
        acts == SelectSeq(main, IsActionCommand)
    IN  [i \in 1..Len(pres) |-> [phase |-> "pre", command |-> pres[i]]]
        \o (IF pres # <<>> THEN <<[phase |-> "annotate", command |-> "updateSom"]>> ELSE <<>>)
        \o [i \in 1..Len(waits) |-> [phase |-> "wait", command |-> waits[i]]]
        \o [i \in 1..Len(acts) |-> [phase |-> "action", command |-> acts[i]]]

\* C35: within one round the commands run one after another, the pre-commands
\* in list order, then the wait-type main commands, then the action-type main
\* commands in list order; a main command starts only after every
\* pre-command has succeeded and the markers have been refreshed; no command
\* starts while an earlier command of the round is still running.
C35_RoundRunsInOrder ==
    LET order == RoundOrder(aiResult) IN
    /\ Len(roundTrace) <= Len(order)
    /\ \A i \in DOMAIN roundTrace :
          /\ roundTrace[i].phase = order[i].phase
          /\ roundTrace[i].command = order[i].command
          /\ i < Len(roundTrace) => (roundTrace[i].settled /\ roundTrace[i].status = "success")

\* a round whose reply lists an action command before a wait command and that has run
\* the wait command and then the action command
C35_Witness ==
    /\ Len(roundTrace) >= 2
    /\ roundTrace[Len(roundTrace)].phase = "action"
    /\ roundTrace[Len(roundTrace) - 1].phase = "wait"
    /\ List(aiResult, "commandsToRun")[1] # WAIT_FOR

(***************************************************************************)
(* C36: a waitFor command pauses for its duration bounded to the window     *)
(* from MIN_WAIT_FOR_DURATION_MS to MAX_WAIT_FOR_DURATION_MS: once the      *)
(* pause has been made, page.waitForTimeout was called with a number of     *)
(* milliseconds inside that window.                                         *)
(***************************************************************************)
C36_PauseWithinWindow ==
    wpc = "paused" =>
        /\ durationMs.kind = "finite"
        /\ durationMs.millis >= MIN_WAIT_FOR_DURATION_MS
        /\ durationMs.millis <= MAX_WAIT_FOR_DURATION_MS

FlaggedWithCommands ==
    /\ pc = "reply"
    /\ rawReply.shouldWait \/ rawReply.stepCompleted
    /\ Len(rawReply.preCommands) + Len(rawReply.commandsToRun) > 0

C38_FlaggedReplyRunsNoCommand ==
    [][(FlaggedWithCommands /\ pc' # pc) =>
          /\ pc' = IF rawReply.shouldWait
                   THEN (IF LimitReached(waitCount, waitRetryLimit) THEN "thrown" ELSE "stabilize")
                   ELSE "done"
          /\ roundTrace' = <<>>
          /\ aggregateResults' = aggregateResults]_vars

\* act() has returned on a stepCompleted reply that listed pre-commands and commands
C38_Witness ==
    /\ pc = "done"
    /\ rawReply # NoReply
    /\ rawReply.stepCompleted /\ ~rawReply.shouldWait
    /\ rawReply.preCommands # <<>>
    /\ rawReply.commandsToRun # <<>>
    /\ roundTrace = <<>>

(***************************************************************************)
(* C39: when act() has returned success on a reply that does not set       *)
(* stepCompleted, at least one action command of that last round ran and   *)
(* succeeded; a reply of wait commands only does not end the objective.    *)
(***************************************************************************)
C39_SuccessNeedsAnAction ==
    (pc = "done" /\ ~Flag(aiResult, "stepCompleted")) =>
        \E i \in DOMAIN roundTrace :
            /\ roundTrace[i].phase = "action"
            /\ roundTrace[i].status = "success"

(***************************************************************************)
(* C40: within one verify() call, the oracle calls that a navigation       *)
(* interrupted and that verify() retried number at most the configured     *)
(* retry limit.                                                            *)
(***************************************************************************)
C40_QueryRetriesWithinLimit ==
    vpc # "idle" => vQueryRetries <= vLimit

====
